---- MODULE Spec2Model ----
(***************************************************************************)
(* InboxWrangler: the contact identity resolver, the sender importance     *)
(* model, the message tracking store and the scoring / recommendation      *)
(* engine (src/analyzer.py, src/scorer.py, src/organizer.py), and the      *)
(* inbox watcher with its SLA timers (src/outlook_inbox_watcher).          *)
(*                                                                         *)
(* Text is a sequence of one-character strings, so that lower-casing,      *)
(* substring tests and splitting are computed as Python computes them.     *)
(* Python's None is the value NoneVal.  Real numbers are fixed-point       *)
(* integers in thousandths (ONE).                                          *)
(***************************************************************************)
EXTENDS Integers, Sequences, FiniteSets, TLC

VARIABLES
    proc,            \* "none": no process; "ready": an EmailAnalyzer is constructed
    unread,          \* mailbox: the set of inbox entry ids whose UnRead flag is set
    tracking_file,   \* email_tracking.pkl: Missing, Corrupt or the pickled mapping
    contact_file,    \* contact_map.pkl
    scores_file,     \* sender_scores.pkl
    behavior_file,   \* inbox_behavior.pkl (sender_read_kept_stats)
    email_tracking,  \* self.email_tracking
    contact_map,     \* self.contact_map
    sender_scores,   \* self.sender_scores
    read_kept_stats, \* self.email_patterns['sender_read_kept_stats']
    scans,           \* number of inbox scans started so far
    toggles,         \* number of read-flag changes the user has made so far
    faults,          \* number of faults (raising items, failing writes) so far
    last_scan,       \* what the latest inbox scan did (observations, outcome, raising item)
    last_write,      \* the snapshot write that failed in the latest step, if any
    last_init,       \* what the latest resolver initialization did
    streak,          \* per entry id: consecutive scans that observed it unread
    chain,           \* per entry id: every scan so far observed it and persisted
    imp,             \* importance build under test: its inputs and its result
    sc,              \* scoring under test: the item, the configuration, the result
    org,             \* organize_inbox: its position, statistics and effects
    mailbox,         \* the sender fields of the Inbox messages, by entry id
    watcher          \* the inbox watcher: its database, clock, loop position, pending events

vars == <<proc, unread, tracking_file, contact_file, scores_file, behavior_file,
          email_tracking, contact_map, sender_scores, read_kept_stats,
          scans, toggles, faults, last_scan, last_write, last_init,
          streak, chain, imp, sc, org, mailbox, watcher>>

analyzer_vars == <<proc, unread, tracking_file, contact_file, scores_file,
                   behavior_file, email_tracking, contact_map, sender_scores,
                   read_kept_stats, scans, toggles, faults, last_scan, last_write,
                   last_init, streak, chain, mailbox>>

-----------------------------------------------------------------------------
(* Text *)

NoneVal == <<"<None>">>

Truthy(v) == v # NoneVal /\ v # <<>>

UpperChars == <<"A","B","C","D","E","F","G","H","I","J","K","L","M",
                "N","O","P","Q","R","S","T","U","V","W","X","Y","Z">>

LowerChars == <<"a","b","c","d","e","f","g","h","i","j","k","l","m",
                "n","o","p","q","r","s","t","u","v","w","x","y","z">>

DigitChars == {"0","1","2","3","4","5","6","7","8","9"}

OtherChars == {" ", "@", ".", "_", "-", "/", "=", "\\", ":", "<", ">"}

Chars == {UpperChars[i] : i \in 1..Len(UpperChars)}
         \cup {LowerChars[i] : i \in 1..Len(LowerChars)}
         \cup DigitChars \cup OtherChars

\* The lower-case form of every character of the model's alphabet
LowerChar ==
    [c \in Chars |->
        IF \E i \in 1..Len(UpperChars) : UpperChars[i] = c
        THEN LowerChars[CHOOSE i \in 1..Len(UpperChars) : UpperChars[i] = c]
        ELSE c]

\* str.lower()
Lower(s) == [i \in 1..Len(s) |-> LowerChar[s[i]]]

\* p in s
IsSub(p, s) == \E i \in 0..(Len(s) - Len(p)) : SubSeq(s, i + 1, i + Len(p)) = p

HasAt(s) == \E i \in 1..Len(s) : s[i] = "@"

\* s.startswith(p)
StartsWith(s, p) == Len(p) <= Len(s) /\ SubSeq(s, 1, Len(p)) = p

\* \w of the re module, for the characters of the model's alphabet
WordChars == {UpperChars[i] : i \in 1..Len(UpperChars)}
             \cup {LowerChars[i] : i \in 1..Len(LowerChars)}
             \cup DigitChars \cup {"_"}

IsSpace(c) == c = " "

RECURSIVE Strip(_)
\* str.strip()
Strip(s) ==
    IF s = <<>> THEN s
    ELSE IF IsSpace(s[1]) THEN Strip(Tail(s))
    ELSE IF IsSpace(s[Len(s)]) THEN Strip(SubSeq(s, 1, Len(s) - 1))
    ELSE s

\* The fold behind re.split with a one-character pattern: every separator
\* closes the current part, empty parts are kept.  A character is a separator
\* when its membership in `chars` is `member`.
SplitFold(s, chars, member) ==
    LET F[i \in 0..Len(s)] ==
            IF i = 0 THEN <<<<>>, <<>>>>
            ELSE LET prev == F[i - 1]
                 IN  IF (s[i] \in chars) = member THEN <<Append(prev[1], prev[2]), <<>>>>
                     ELSE <<prev[1], Append(prev[2], s[i])>>
    IN  Append(F[Len(s)][1], F[Len(s)][2])

LocalSeps == {".", "_", "-"}

\* re.split(r'[._-]', email_local)
SplitLocal(s) == SplitFold(s, LocalSeps, TRUE)

SeqFilterLen2(parts) ==
    LET F[i \in 0..Len(parts)] ==
            IF i = 0 THEN <<>>
            ELSE IF Len(parts[i]) > 2 THEN Append(F[i - 1], parts[i]) ELSE F[i - 1]
    IN  F[Len(parts)]

\* [w for w in re.split(r'\W+', s) if len(w) > 2]: a run of separators yields
\* only empty parts, which the length filter drops.
NameWords(s) == SeqFilterLen2(SplitFold(s, WordChars, FALSE))

\* email.split('@')[0]
LocalPart(s) ==
    IF HasAt(s)
    THEN SubSeq(s, 1, (CHOOSE i \in 1..Len(s) :
                          s[i] = "@" /\ \A j \in 1..(i - 1) : s[j] # "@") - 1)
    ELSE s

RECURSIVE Concat(_)
\* ''.join(parts)
Concat(parts) == IF parts = <<>> THEN <<>> ELSE Head(parts) \o Concat(Tail(parts))

\* s.replace('.', '').replace('-', '').replace('_', '')
DropLocalSeps(s) == Concat(SplitLocal(s))

Range(f) == {f[i] : i \in DOMAIN f}

-----------------------------------------------------------------------------
(* Contact identity resolver *)

UNKNOWN == <<"u","n","k","n","o","w","n">>

UNKNOWN_SENDER == <<"U","n","k","n","o","w","n"," ","S","e","n","d","e","r">>

\* EmailAnalyzer._normalize_contact with the alias map as a parameter
normalize_contact(cmap, contact) ==
    IF ~Truthy(contact) THEN UNKNOWN
    ELSE LET contact_lower == Lower(contact)
         IN  IF HasAt(contact_lower) THEN contact_lower
             ELSE IF contact_lower \in DOMAIN cmap THEN cmap[contact_lower]
             ELSE contact_lower

-----------------------------------------------------------------------------
(* The mailbox: NMsgs inbox messages, entry ids 1..NMsgs.  What varies from
   scan to scan is each message's UnRead flag; its sender fields are fixed. *)

MaxScans == 3

MaxToggles == 2

MaxFaults == 1

olMail == 43

INBOX_PATH == <<"\\","\\","m","e","\\","I","n","b","o","x">>

INBOX_NAME == <<"I","n","b","o","x">>

DELETED_ITEMS == <<"D","e","l","e","t","e","d"," ","I","t","e","m","s">>

JOHN_DOE == <<"J","o","h","n"," ","D","o","e">>

JDOE_ADDR == <<"j","d","o","e","@","e","x","a","m","p","l","e",".","c","o","m">>

JD == <<"J","D">>

JOHN_DOE_OTHER == <<"J","o","h","n",".","D","o","e","@","o","t","h","e","r",".","c","o","m">>

UNKNOWN_NAME == <<"U","n","k","n","o","w","n">>

U_ADDR == <<"u","@","x",".","c","o","m">>

V_ADDR == <<"V","@","x",".","c","o","m">>

EXCH_ADDR == <<"/","o","=","E","x","/","c","n","=","j","d","o","e">>

\* The sender fields of the Inbox messages, by entry id: a display name with
\* its SMTP address, initials with a mixed-case address, and the display name
\* "Unknown".
InboxSenders ==
    << [SenderName |-> JOHN_DOE, SenderEmailAddress |-> JDOE_ADDR],
       [SenderName |-> JD, SenderEmailAddress |-> JOHN_DOE_OTHER],
       [SenderName |-> UNKNOWN_NAME, SenderEmailAddress |-> U_ADDR] >>

\* inbox.Items.Count
NMsgs == Len(InboxSenders)

Ids == 1..NMsgs

\* A second Inbox: the display name of message 2 is itself an address, other
\* than the one the message comes from, and message 3 has no display name
\* (the SenderName read gives None).
InboxSendersNoName ==
    << [SenderName |-> JOHN_DOE, SenderEmailAddress |-> JDOE_ADDR],
       [SenderName |-> V_ADDR, SenderEmailAddress |-> JOHN_DOE_OTHER],
       [SenderName |-> NoneVal, SenderEmailAddress |-> U_ADDR] >>

Mailboxes == {InboxSenders, InboxSendersNoName}

SenderFields(id) == mailbox[id]

\* The MailItem the mail source hands out for entry id `id`; `unr` is the set
\* of ids whose UnRead flag is set.  Items of inbox.Items lie in the Inbox.
MailItem(id, unr) ==
    [EntryID            |-> id,
     Class              |-> olMail,
     SenderName         |-> SenderFields(id).SenderName,
     SenderEmailAddress |-> SenderFields(id).SenderEmailAddress,
     UnRead             |-> id \in unr,
     Parent             |-> [FolderPath |-> INBOX_PATH, Name |-> INBOX_NAME],
     ConversationID     |-> id,
     ReceivedTime       |-> id]

\* outlook_utils.safe_get_property: one getattr with the name as given; a name
\* that is no attribute of the item ("Parent.FolderPath") yields the default.
safe_get_property(item, property_name, default) ==
    IF property_name \in DOMAIN item THEN item[property_name] ELSE default

\* EmailAnalyzer._get_sender_address; an Exchange address that does not
\* resolve falls back to the sender's name.
get_sender_address(item) ==
    LET sender_addr == safe_get_property(item, "SenderEmailAddress", NoneVal)
        sender_name == safe_get_property(item, "SenderName", NoneVal)
        fallback    == IF Truthy(sender_name) THEN sender_name ELSE UNKNOWN_SENDER
    IN  IF Truthy(sender_addr) /\ ~HasAt(sender_addr) /\ StartsWith(sender_addr, <<"/">>)
        THEN fallback
        ELSE IF Truthy(sender_addr) /\ HasAt(sender_addr) THEN sender_addr
        ELSE fallback

-----------------------------------------------------------------------------
(* Persisted snapshots *)

EmptyMap == <<>>

Missing == [state |-> "missing", data |-> EmptyMap]

Corrupt == [state |-> "corrupt", data |-> EmptyMap]

Stored(data) == [state |-> "ok", data |-> data]

WriteOutcomes == {"ok", "open_fails", "dump_fails"}

\* with open(file, 'wb') as f: pickle.dump(data, f), inside try/except that
\* only logs.  open() truncates the file before anything is written, so a
\* failure of the dump leaves a file that no longer unpickles; a failure of
\* open() itself leaves the old file.
save_pickle(file, data, outcome) ==
    CASE outcome = "ok"         -> Stored(data)
      [] outcome = "open_fails" -> file
      [] outcome = "dump_fails" -> Corrupt

\* _load_analysis_data, one file: a missing file or any load error gives {}
load_pickle(file) == IF file.state = "ok" THEN file.data ELSE EmptyMap

-----------------------------------------------------------------------------
(* Inbox scan: EmailAnalyzer.analyze_inbox_behavior *)

max_analysis_emails == 5000

Min(a, b) == IF a <= b THEN a ELSE b

Max(a, b) == IF a >= b THEN a ELSE b

\* items.Sort("[ReceivedTime]", True): newest first
InboxOrder == [i \in 1..NMsgs |-> NMsgs + 1 - i]

ZeroBehavior == [read_kept |-> 0, unread_kept |-> 0, deleted |-> 0, moved |-> 0, total |-> 0]

GetOr(map, key, default) == IF key \in DOMAIN map THEN map[key] ELSE default

Put(map, key, value) == [k \in DOMAIN map \cup {key} |-> IF k = key THEN value ELSE map[k]]

FaultKinds == {"fetch", "body", "body_subject_none"}

\* new_check_count of one item
CheckCountReadKeeps(previous_check_count, is_read) == previous_check_count + 1

\* Lines 981-984 with the count of an unread message left as it was
CheckCountNotIncremented(previous_check_count, is_read) ==
    IF ~is_read THEN previous_check_count ELSE 0

new_check_count(previous_check_count, is_read) ==
    IF ~is_read THEN previous_check_count + 1 ELSE 0

\* sender_behavior[sender] after one more item
classify_item(sb, item, is_read) ==
    LET current_folder == safe_get_property(item, "Parent.FolderPath", NoneVal)
    IN  IF current_folder = INBOX_PATH
        THEN IF is_read THEN [sb EXCEPT !.read_kept = @ + 1, !.total = @ + 1]
             ELSE [sb EXCEPT !.unread_kept = @ + 1, !.total = @ + 1]
        ELSE IF safe_get_property(item, "Parent.Name", NoneVal) = DELETED_ITEMS
        THEN [sb EXCEPT !.deleted = @ + 1, !.total = @ + 1]
        ELSE [sb EXCEPT !.moved = @ + 1, !.total = @ + 1]

\* The tracking record and behaviour update of one item (lines 975-1016)
store_item(acc, item, entry_id, sender, raw_sender, sender_name, sender_email, pairs) ==
    LET previous     == GetOr(acc.tracking, entry_id, EmptyMap)
        previous_check_count == GetOr(previous, "check_count", 0)
        is_read      == safe_get_property(item, "UnRead", NoneVal) = FALSE
        record       == [sender            |-> sender,
                         raw_sender        |-> raw_sender,
                         sender_name       |-> sender_name,
                         sender_email      |-> sender_email,
                         folder_path       |-> safe_get_property(item, "Parent.FolderPath", NoneVal),
                         is_currently_read |-> is_read,
                         check_count       |-> new_check_count(previous_check_count, is_read)]
    IN  IF ~Truthy(sender)
        THEN [acc EXCEPT !.pairs = pairs]
        ELSE [acc EXCEPT
                !.pairs    = pairs,
                !.tracking = Put(acc.tracking, entry_id, record),
                !.behavior = Put(acc.behavior, sender,
                                 classify_item(GetOr(acc.behavior, sender, ZeroBehavior),
                                               item, is_read)),
                !.observed = @ \cup {entry_id}]

\* The body of the item loop for an item that raises nothing (lines 947-1016)
process_item(acc, item, cmap) ==
    LET entry_id     == safe_get_property(item, "EntryID", NoneVal)
        sender_name  == safe_get_property(item, "SenderName", NoneVal)
        sender_email == safe_get_property(item, "SenderEmailAddress", NoneVal)
        pairs        == IF Truthy(sender_name) /\ Truthy(sender_email) /\ HasAt(sender_email)
                        THEN Append(acc.pairs, <<Lower(sender_name), Lower(sender_email)>>)
                        ELSE acc.pairs
    IN  CHOOSE r \in {store_item(acc, item, entry_id, sender, raw_sender,
                                 sender_name, sender_email, prs) :
                         raw_sender \in {get_sender_address(item)},
                         sender \in {normalize_contact(cmap, get_sender_address(item))},
                         prs \in {pairs}} : TRUE

\* The item loop.  fault_id is the entry id of the one item that raises in this
\* scan (0: none).  "fetch": items[i + 1] raises, and the handler's
\* safe_get_property(item, ...) then reads the previous item, or an unbound
\* name in the first iteration, which escapes the handler.  "body": item.Class
\* raises and the handler logs it.  "body_subject_none": item.Class raises and
\* the item's Subject is None, so the handler's [:50] raises and escapes.
loop_step(acc, i, cmap, unr, fault_id, fault_kind) ==
    IF acc.aborted THEN acc
    ELSE IF InboxOrder[i] = fault_id
    THEN IF fault_kind = "body_subject_none" \/ (fault_kind = "fetch" /\ i = 1)
         THEN [acc EXCEPT !.aborted = TRUE]
         ELSE acc
    ELSE process_item(acc, MailItem(InboxOrder[i], unr), cmap)

RECURSIVE loop_from(_, _, _, _, _, _)
loop_from(i, acc, cmap, unr, fault_id, fault_kind) ==
    IF i > Min(NMsgs, max_analysis_emails) THEN acc
    ELSE CHOOSE r \in {loop_from(i + 1, a, cmap, unr, fault_id, fault_kind) :
                          a \in {loop_step(acc, i, cmap, unr, fault_id, fault_kind)}} : TRUE

scan_loop(tracking0, cmap, unr, fault_id, fault_kind) ==
    loop_from(1, [tracking |-> tracking0, pairs |-> <<>>, behavior |-> EmptyMap,
                  observed |-> {}, aborted |-> FALSE],
              cmap, unr, fault_id, fault_kind)

\* Lines 1031-1037: every captured pair is written into the alias map
apply_pairs(cmap, pairs) ==
    LET F[i \in 0..Len(pairs)] ==
            IF i = 0 THEN cmap
            ELSE LET name  == pairs[i][1]
                     email == pairs[i][2]
                 IN  IF Truthy(name) /\ Truthy(email) /\ HasAt(email)
                     THEN Put(F[i - 1], name, email)
                     ELSE F[i - 1]
    IN  F[Len(pairs)]

\* Lines 1047-1050
read_kept_of(behavior) == [s \in DOMAIN behavior |-> [count |-> behavior[s].read_kept]]

\* Which snapshot write of a handler fails, and how: at most one per handler.
WriteFaults == {[file |-> "none", outcome |-> "ok"]}
               \cup [file : {"contact", "tracking", "behavior", "scores"},
                     outcome : {"open_fails", "dump_fails"}]

OutcomeFor(wf, file) == IF wf.file = file THEN wf.outcome ELSE "ok"

\* Whether the tracking snapshot is written by a scan: only after the item
\* loop has finished (line 1053), never from inside it.
SavesWhenAborted(aborted) == TRUE

tracking_saved(aborted) == ~aborted

-----------------------------------------------------------------------------
(* Alias map construction: EmailAnalyzer._initialize_contact_map *)

AnyIn(seq, P(_)) == \E i \in 1..Len(seq) : P(seq[i])

\* Step 0: the (display name, address) pairs one tracking record gives
record_pairs(data) ==
    LET sender       == Strip(data.sender)
        raw_sender   == Strip(data.raw_sender)
        sender_name  == Strip(data.sender_name)
        sender_email == Strip(data.sender_email)
        from_raw ==
            IF Truthy(sender) /\ Truthy(raw_sender) /\ sender # raw_sender
            THEN IF HasAt(sender) /\ ~HasAt(raw_sender)
                 THEN <<<<Lower(raw_sender), Lower(sender)>>>>
                 ELSE IF HasAt(raw_sender) /\ ~HasAt(sender)
                 THEN <<<<Lower(sender), Lower(raw_sender)>>>>
                 ELSE <<>>
            ELSE <<>>
        explicit ==
            IF Truthy(sender_name) /\ Truthy(sender_email) /\ HasAt(sender_email)
            THEN <<<<Lower(sender_name), Lower(sender_email)>>>>
            ELSE <<>>
    IN  from_raw \o explicit

\* The records of the tracking store in the order the first scan inserted them
TrackingOrder(tracking) ==
    LET F[i \in 0..NMsgs] ==
            IF i = 0 THEN <<>>
            ELSE IF InboxOrder[i] \in DOMAIN tracking
                 THEN Append(F[i - 1], tracking[InboxOrder[i]])
                 ELSE F[i - 1]
    IN  F[NMsgs]

raw_sender_pairs(tracking) ==
    LET recs == TrackingOrder(tracking)
        F[i \in 0..Len(recs)] ==
            IF i = 0 THEN <<>> ELSE F[i - 1] \o record_pairs(recs[i])
    IN  F[Len(recs)]

\* Step 2, lines 333-334 and 350-351: a name and an address correspond
corresponds(name_lower, email) ==
    LET name_words  == NameWords(name_lower)
        email_local == LocalPart(email)
        InLocal(word) == IsSub(word, email_local)
        InName(part)  == IsSub(part, name_lower)
    IN  AnyIn(name_words, InLocal) \/ AnyIn(SplitLocal(email_local), InName)

\* Step 2: name_to_emails as a set of <<name, address>>
name_to_emails(tracking) ==
    LET recs    == Range(TrackingOrder(tracking))
        senders == {Strip(r.sender) : r \in recs}
        emails  == {Lower(x) : x \in {y \in senders : Truthy(y) /\ HasAt(y)}}
        names   == {Lower(x) : x \in {y \in senders : Truthy(y) /\ ~HasAt(y)}}
        direct  == Range(raw_sender_pairs(tracking))
        found   == {ne \in names \X emails : corresponds(ne[1], ne[2])}
        sofar   == direct \cup found
        unstripped == {Lower(r.sender) : r \in recs}
        by_component ==
            {ne \in {p[1] : p \in sofar} \X {x \in unstripped : HasAt(x)} :
                LET InSender(word) == IsSub(word, ne[2])
                IN  AnyIn(NameWords(ne[1]), InSender)}
    IN  sofar \cup by_component

\* sum() of a sequence of numbers
SumSeq(seq) ==
    LET F[i \in 0..Len(seq)] == IF i = 0 THEN 0 ELSE F[i - 1] + seq[i]
    IN  F[Len(seq)]

\* Step 3: the match score of one address for one display name
match_score(name, email) ==
    LET name_words  == NameWords(name)
        email_local == LocalPart(email)
        parts       == SplitLocal(email_local)
        WordPoints(word) ==
            LET Holds(part) == IsSub(word, part)
            IN  IF IsSub(word, email_local) THEN 2
                ELSE IF AnyIn(parts, Holds) THEN 1 ELSE 0
        PartPoints(part) ==
            LET Within(word) == IsSub(part, word)
            IN  IF Len(part) > 2 /\ IsSub(part, name) THEN 2
                ELSE IF AnyIn(name_words, Within) THEN 1 ELSE 0
        full_name == IF Concat(name_words) = DropLocalSeps(email_local) THEN 5 ELSE 0
        initial_last ==
            IF /\ Len(name_words) > 1
               /\ StartsWith(email_local, <<name_words[1][1]>>)
               /\ StartsWith(Tail(email_local), name_words[Len(name_words)])
            THEN 4 ELSE 0
    IN  SumSeq([i \in 1..Len(name_words) |-> WordPoints(name_words[i])])
        + SumSeq([i \in 1..Len(parts) |-> PartPoints(parts[i])])
        + full_name + initial_last

\* Step 3: the addresses the loop "if score > best_score" can end with; the
\* candidates are a Python set, so among equal scores any may come first.
best_emails(name, rel) ==
    LET emails == {p[2] : p \in {q \in rel : q[1] = name}}
        top    == CHOOSE m \in {match_score(name, e) : e \in emails} :
                      \A e \in emails : match_score(name, e) <= m
    IN  IF top >= 1 THEN {e \in emails : match_score(name, e) = top} ELSE {}

\* Step 4: a direct pair is entered only for a name step 3 left unmapped
add_direct(cmap, pairs) ==
    LET F[i \in 0..Len(pairs)] ==
            IF i = 0 THEN cmap
            ELSE LET display_name == pairs[i][1]
                     email        == pairs[i][2]
                     prev         == F[i - 1]
                 IN  IF /\ Truthy(display_name) /\ Truthy(email) /\ HasAt(email)
                        /\ display_name \notin DOMAIN prev
                     THEN Put(prev, display_name, email)
                     ELSE prev
    IN  F[Len(pairs)]

\* A record whose stored sender field is None makes .strip() raise in step 0;
\* the handler around the whole construction logs it and the map stays empty.
raises_in_step0(tracking) ==
    \E id \in DOMAIN tracking :
        \E f \in {"sender", "raw_sender", "sender_name", "sender_email"} :
            tracking[id][f] = NoneVal

\* Steps 3 and 4 for the correspondences `rel` and the direct pairs `pairs`
resolve_names(rel, pairs) ==
    LET names  == {p[1] : p \in rel}
        best   == [n \in names |-> best_emails(n, rel)]
    IN  UNION {{add_direct(f, pairs) :
                  f \in {g \in [{n \in names : b[n] # {}} -> {p[2] : p \in rel}] :
                            \A n \in DOMAIN g : g[n] \in b[n]}} : b \in {best}}

\* The alias maps _initialize_contact_map can leave in self.contact_map
initialize_contact_map(cmap, tracking) ==
    IF cmap # EmptyMap THEN {cmap}
    ELSE IF raises_in_step0(tracking) THEN {EmptyMap}
    ELSE UNION {resolve_names(rel, pairs) :
                  rel \in {name_to_emails(tracking)},
                  pairs \in {raw_sender_pairs(tracking)}}

-----------------------------------------------------------------------------
(* Importance build: EmailAnalyzer._calculate_contact_importance.  Scores are
   fixed-point numbers in thousandths; a division rounds down. *)

ONE == 1000

reply_factor == 1000

initiation_factor == 500

read_kept_factor == 300

min_emails_for_pattern == 5

reply_time_weight == 400

reply_rate_weight == 400

reply_length_weight == 200

RECURSIVE SumSet(_, _)
SumSet(S, f) ==
    IF S = {} THEN 0
    ELSE LET x == CHOOSE y \in S : TRUE IN f[x] + SumSet(S \ {x}, f)

RECURSIVE ConcatSet(_, _)
ConcatSet(S, f) ==
    IF S = {} THEN <<>>
    ELSE LET x == CHOOSE y \in S : TRUE IN f[x] \o ConcatSet(S \ {x}, f)

\* Line 770; response_time is always the number line 667 computes
SelectValid(responses) ==
    SelectSeq(responses, LAMBDA r : r.response_time >= 0)

\* min() and max() of a sequence of numbers
SeqMin(seq) ==
    CHOOSE m \in {seq[i] : i \in 1..Len(seq)} : \A i \in 1..Len(seq) : m <= seq[i]

SeqMax(seq) ==
    CHOOSE m \in {seq[i] : i \in 1..Len(seq)} : \A i \in 1..Len(seq) : m >= seq[i]

\* Lines 753-757: the contact itself, then every display name mapped to it
display_names_of(cmap, normalized_contact) ==
    {display_name \in DOMAIN cmap : cmap[display_name] = normalized_contact}

\* Lines 759-788: reply_count and reply_component_score of the responses
reply_component(all_responses) ==
    LET valid_responses == SelectValid(all_responses)
        reply_count     == Len(valid_responses)
        times           == [i \in 1..reply_count |-> valid_responses[i].response_time]
        lengths         == [i \in 1..reply_count |-> valid_responses[i].response_length]
        dates           == [i \in 1..reply_count |-> valid_responses[i].sent_date]
        avg_response_time   == (SumSeq(times) * ONE) \div reply_count
        avg_response_length == (SumSeq(lengths) * ONE) \div reply_count
        response_time_score == (ONE * ONE) \div (ONE + Max(0, avg_response_time) \div 24)
        date_range_days == Max(1, SeqMax(dates) - SeqMin(dates))
        response_freq   == (reply_count * ONE) \div date_range_days
    IN  IF Len(all_responses) >= min_emails_for_pattern /\ reply_count > 0
        THEN [reply_count |-> reply_count,
              score |-> (reply_time_weight * response_time_score
                         + reply_rate_weight * Min(ONE, response_freq * 10)
                         + reply_length_weight * Min(ONE, Max(0, avg_response_length) \div 500))
                        \div ONE]
        ELSE [reply_count |-> 0, score |-> 0]

\* Lines 747-841: the record of one normalized contact, before normalization
contact_record(normalized_contact, cmap, response_data, sender_initiations, stats) ==
    LET names == display_names_of(cmap, normalized_contact)
        Responses(identity)   == GetOr(response_data, identity, <<>>)
        Initiations(identity) == GetOr(sender_initiations, identity, [count |-> 0]).count
        ReadKept(identity)    == GetOr(stats, identity, [count |-> 0]).count
        reply == reply_component(Responses(normalized_contact)
                                 \o ConcatSet(names, [d \in names |-> Responses(d)]))
        initiation_count == Initiations(normalized_contact)
                            + SumSet(names, [d \in names |-> Initiations(d)])
        read_kept_count  == ReadKept(normalized_contact)
                            + SumSet(names, [d \in names |-> ReadKept(d)])
    IN  [raw_score          |-> (reply.score * reply_factor) \div ONE
                                + initiation_count * initiation_factor
                                + read_kept_count * read_kept_factor,
         reply_count        |-> reply.reply_count,
         initiation_count   |-> initiation_count,
         read_kept_count    |-> read_kept_count,
         total_interactions |-> reply.reply_count + initiation_count + read_kept_count,
         normalized_score   |-> 500,
         score              |-> 0]

\* Lines 851-854 with the raw score taken as it is
RawScoreAsNormalized(raw_score, min_raw_score, raw_score_range) == raw_score

\* Lines 851-854: norm_score, clamped
normalized_score_of(raw_score, min_raw_score, raw_score_range) ==
    Max(0, Min(ONE, ((raw_score - min_raw_score) * ONE) \div raw_score_range))

\* Lines 856-859 without the single-sender case
KeepsInitialScore(n_senders, data) == data.normalized_score

\* Lines 856-859: with a raw-score range of zero a single sender gets 0.6;
\* several senders keep the value their record was built with
zero_range_score(n_senders, data) ==
    IF n_senders = 1 THEN (6 * ONE) \div 10 ELSE data.normalized_score

\* Lines 843-864
normalize_scores(new_sender_scores) ==
    LET raw_scores == {new_sender_scores[c].raw_score : c \in DOMAIN new_sender_scores}
        max_raw_score == CHOOSE m \in raw_scores : \A x \in raw_scores : x <= m
        min_raw_score == CHOOSE m \in raw_scores : \A x \in raw_scores : x >= m
        raw_score_range == max_raw_score - min_raw_score
        Normalized(data) ==
            IF raw_score_range > 0
            THEN normalized_score_of(data.raw_score, min_raw_score, raw_score_range)
            ELSE zero_range_score(Cardinality(DOMAIN new_sender_scores), data)
    IN  IF DOMAIN new_sender_scores = {} THEN new_sender_scores
        ELSE [c \in DOMAIN new_sender_scores |->
                 LET n == Normalized(new_sender_scores[c])
                 IN  [new_sender_scores[c] EXCEPT !.normalized_score = n, !.score = n]]

\* Line 829 without the test: every contact gets a record
RetainsAll(records) == DOMAIN records

\* Line 829: a record is stored only for a contact with an interaction
retained(records) == {c \in DOMAIN records : records[c].total_interactions > 0}

\* The value _calculate_contact_importance assigns to self.sender_scores
calculate_contact_importance(cmap, response_data, sender_initiations, stats) ==
    LET all_contacts == DOMAIN response_data \cup DOMAIN sender_initiations \cup DOMAIN stats
        normalized_contacts == {normalize_contact(cmap, contact) : contact \in all_contacts}
        records == [c \in normalized_contacts |->
                       contact_record(c, cmap, response_data, sender_initiations, stats)]
        kept == retained(records)
    IN  normalize_scores([c \in kept |-> records[c]])

-----------------------------------------------------------------------------
(* Sent items analysis: EmailAnalyzer.analyze_sent_items *)

olTo == 1

olCC == 2

RE_HI == <<"R","e",":"," ","h","i">>

HELLO == <<"H","e","l","l","o">>

RE_PREFIX == <<"r","e",":">>

FW_PREFIX == <<"f","w",":">>

\* The Sent Items folder, newest first: a reply in the conversation of Inbox
\* message 1, sent after that message was received, and a new message to a
\* recipient with an Exchange address, copied to a second recipient.
SentItems ==
    << [Class |-> olMail, Subject |-> RE_HI, ConversationID |-> 1, SentOn |-> NMsgs + 2,
        BodyLen |-> 120,
        Recipients |-> << [Type |-> olTo, Address |-> JDOE_ADDR, Name |-> JOHN_DOE] >>],
       [Class |-> olMail, Subject |-> HELLO, ConversationID |-> NMsgs + 1, SentOn |-> NMsgs + 1,
        BodyLen |-> 40,
        Recipients |-> << [Type |-> olTo, Address |-> EXCH_ADDR, Name |-> JD],
                          [Type |-> olCC, Address |-> U_ADDR, Name |-> UNKNOWN_NAME] >>] >>

\* self.conversation_history: created empty by __init__ (line 45); no statement
\* of the program adds an entry to it.
conversation_history == EmptyMap

\* Lines 613-624: the normalized recipients of the To field
recipients_to(item, cmap) ==
    LET to == SelectSeq(item.Recipients, LAMBDA recipient : recipient.Type = olTo)
    IN  [i \in 1..Len(to) |->
            normalize_contact(cmap,
                IF Truthy(to[i].Address) /\ HasAt(to[i].Address)
                THEN to[i].Address ELSE to[i].Name)]

\* Lines 647-654: the most recent message of the thread received before the reply
parent_message(thread_history, sent_on_time) ==
    IF thread_history = NoneVal \/ thread_history = <<>> THEN NoneVal
    ELSE LET earlier == {i \in 1..Len(thread_history) :
                            thread_history[i].received_time < sent_on_time}
         IN  IF earlier = {} THEN NoneVal
             ELSE thread_history[CHOOSE i \in earlier : \A j \in earlier : j <= i]

\* Lines 638-642: one more initiation for every To recipient
add_initiations(sender_initiations, recipients) ==
    LET F[i \in 0..Len(recipients)] ==
            IF i = 0 THEN sender_initiations
            ELSE LET prev == F[i - 1]
                 IN  Put(prev, recipients[i],
                         [count |-> GetOr(prev, recipients[i], [count |-> 0]).count + 1])
    IN  F[Len(recipients)]

\* The body of the sent-items loop for one item (lines 605-691)
sent_item_step(acc, item, cmap) ==
    LET subject   == Lower(item.Subject)
        is_reply  == StartsWith(subject, RE_PREFIX)
        parent    == parent_message(GetOr(conversation_history, item.ConversationID, NoneVal),
                                    item.SentOn)
        parent_sender == normalize_contact(cmap, parent.sender)
        response  == [response_time   |-> item.SentOn - parent.received_time,
                      response_length |-> item.BodyLen,
                      sent_date       |-> item.SentOn]
        initiations == IF ~is_reply /\ ~StartsWith(subject, FW_PREFIX)
                       THEN add_initiations(acc.sender_initiations, recipients_to(item, cmap))
                       ELSE acc.sender_initiations
        responses == IF is_reply /\ parent # NoneVal
                     THEN Put(acc.response_data, parent_sender,
                              Append(GetOr(acc.response_data, parent_sender, <<>>), response))
                     ELSE acc.response_data
    IN  IF item.Class # olMail THEN acc
        ELSE [response_data |-> responses, sender_initiations |-> initiations]

sent_loop(cmap) ==
    LET n == Min(Len(SentItems), max_analysis_emails)
        F[i \in 0..n] ==
            IF i = 0 THEN [response_data |-> EmptyMap, sender_initiations |-> EmptyMap]
            ELSE sent_item_step(F[i - 1], SentItems[i], cmap)
    IN  F[n]

-----------------------------------------------------------------------------
(* The analyzer's life: a process constructs an EmailAnalyzer (load, alias
   map), may run the sent-items analysis and the inbox scan, and exits.  The
   user changes read flags between runs. *)

NoWrite == [file |-> "none", outcome |-> "ok"]

NoScan == [outcome |-> "none", observed |-> {}, raised |-> 0]

IdleImp == [phase |-> "off"]

IdleSc == [phase |-> "off"]

IdleOrg == [phase |-> "off"]

IdleWatcher == [phase |-> "off"]

\* No analyzer process, nothing persisted, every message unread
AnalyzerInit ==
    /\ proc = "none"
    /\ unread = Ids
    /\ tracking_file = Missing
    /\ contact_file = Missing
    /\ scores_file = Missing
    /\ behavior_file = Missing
    /\ email_tracking = EmptyMap
    /\ contact_map = EmptyMap
    /\ sender_scores = EmptyMap
    /\ read_kept_stats = EmptyMap
    /\ scans = 0
    /\ toggles = 0
    /\ faults = 0
    /\ last_scan = NoScan
    /\ last_write = NoWrite
    /\ last_init = "none"
    /\ streak = [id \in Ids |-> 0]
    /\ chain = [id \in Ids |-> TRUE]

Init ==
    /\ AnalyzerInit
    /\ watcher = IdleWatcher
    /\ mailbox \in Mailboxes
    /\ imp = IdleImp
    /\ sc = IdleSc
    /\ org = IdleOrg

\* The user reads a message, or marks it unread again
MarkRead(id) ==
    /\ proc = "none"
    /\ toggles < MaxToggles
    /\ toggles' = toggles + 1
    /\ id \in unread
    /\ unread' = unread \ {id}
    /\ last_write' = NoWrite
    /\ UNCHANGED <<proc, tracking_file, contact_file, scores_file, behavior_file,
                   email_tracking, contact_map, sender_scores, read_kept_stats,
                   scans, faults, last_scan, last_init, streak, chain, imp, sc, org, mailbox, watcher>>

MarkUnread(id) ==
    /\ proc = "none"
    /\ toggles < MaxToggles
    /\ toggles' = toggles + 1
    /\ id \notin unread
    /\ unread' = unread \cup {id}
    /\ last_write' = NoWrite
    /\ UNCHANGED <<proc, tracking_file, contact_file, scores_file, behavior_file,
                   email_tracking, contact_map, sender_scores, read_kept_stats,
                   scans, faults, last_scan, last_init, streak, chain, imp, sc, org, mailbox, watcher>>

\* EmailAnalyzer.__init__: _load_analysis_data, then _initialize_contact_map,
\* which saves the map it has built when that map is not empty.
Construct(wf) ==
    /\ proc = "none"
    /\ wf.file \in {"none", "contact"}
    /\ \E loaded_tracking \in {load_pickle(tracking_file)} :
       \E loaded_map \in {load_pickle(contact_file)} :
           /\ email_tracking' = loaded_tracking
           /\ sender_scores' = load_pickle(scores_file)
           /\ read_kept_stats' = load_pickle(behavior_file)
           /\ \E cm \in initialize_contact_map(loaded_map, loaded_tracking) :
                LET saves == loaded_map = EmptyMap /\ cm # EmptyMap
                             /\ ~raises_in_step0(loaded_tracking)
                IN  /\ contact_map' = cm
                    /\ saves \/ wf = NoWrite
                    /\ wf = NoWrite \/ faults < MaxFaults
                    /\ faults' = IF wf = NoWrite THEN faults ELSE faults + 1
                    /\ contact_file' = IF saves
                                       THEN save_pickle(contact_file, cm, OutcomeFor(wf, "contact"))
                                       ELSE contact_file
                    /\ last_write' = wf
                    /\ last_init' = IF loaded_map # EmptyMap THEN "kept"
                                    ELSE IF raises_in_step0(loaded_tracking) THEN "failed"
                                    ELSE "rebuilt"
    /\ proc' = "ready"
    /\ UNCHANGED <<unread, tracking_file, scores_file, behavior_file,
                   scans, toggles, last_scan, streak, chain, imp, sc, org, mailbox, watcher>>

\* analyze_sent_items, whole: the item loop, the importance build and the
\* save of the importance snapshot.
AnalyzeSent(wf) ==
    /\ proc = "ready"
    /\ scans < MaxScans
    /\ wf.file \in {"none", "scores"}
    /\ wf = NoWrite \/ faults < MaxFaults
    /\ faults' = IF wf = NoWrite THEN faults ELSE faults + 1
    /\ \E d \in {sent_loop(contact_map)} :
       \E scores \in {calculate_contact_importance(contact_map, d.response_data,
                                                   d.sender_initiations, read_kept_stats)} :
           /\ sender_scores' = scores
           /\ scores_file' = save_pickle(scores_file, scores, OutcomeFor(wf, "scores"))
    /\ last_write' = wf
    /\ proc' = "sent_done"
    /\ UNCHANGED <<unread, tracking_file, contact_file, behavior_file, email_tracking,
                   contact_map, read_kept_stats, scans, toggles, last_scan, last_init,
                   streak, chain, imp, sc, org, mailbox, watcher>>

\* analyze_inbox_behavior, whole: the item loop, the alias map update and its
\* save, the read-and-kept statistics, the tracking and behaviour saves.  An
\* exception that escapes the loop ends the handler there (run_all_analyses
\* logs it).
AnalyzeInbox(fault_id, fault_kind) ==
    /\ proc = "sent_done"
    /\ scans < MaxScans
    /\ \E r \in {scan_loop(email_tracking, contact_map, unread, fault_id, fault_kind)} :
       \E new_map \in {apply_pairs(contact_map, r.pairs)} :
       \E stats \in {read_kept_of(r.behavior)} :
       LET saves_map == r.pairs # <<>>
           completed == ~r.aborted
       IN  \E wf \in WriteFaults :
           /\ wf.file \in {"none", "contact", "tracking", "behavior"}
           /\ email_tracking' = r.tracking
           /\ contact_map' = IF completed THEN new_map ELSE contact_map
           /\ contact_file' = IF completed /\ saves_map
                              THEN save_pickle(contact_file, new_map, OutcomeFor(wf, "contact"))
                              ELSE contact_file
           /\ read_kept_stats' = IF completed THEN stats ELSE read_kept_stats
           /\ tracking_file' = IF tracking_saved(r.aborted)
                               THEN save_pickle(tracking_file, r.tracking,
                                                OutcomeFor(wf, "tracking"))
                               ELSE tracking_file
           /\ behavior_file' = IF completed
                               THEN save_pickle(behavior_file, stats,
                                                OutcomeFor(wf, "behavior"))
                               ELSE behavior_file
           /\ wf = NoWrite \/ (completed /\ (wf.file = "contact" => saves_map))
           /\ faults + (IF fault_id = 0 THEN 0 ELSE 1) + (IF wf = NoWrite THEN 0 ELSE 1)
                 <= MaxFaults
           /\ faults' = faults + (IF fault_id = 0 THEN 0 ELSE 1)
                               + (IF wf = NoWrite THEN 0 ELSE 1)
           /\ last_write' = wf
           /\ last_scan' = [outcome |-> IF completed THEN "completed" ELSE "aborted",
                            observed |-> r.observed,
                            raised   |-> fault_id]
           /\ streak' = [id \in Ids |->
                            IF id \in r.observed
                            THEN IF id \in unread THEN streak[id] + 1 ELSE 0
                            ELSE streak[id]]
           /\ chain' = [id \in Ids |->
                            /\ chain[id]
                            /\ id \in r.observed
                            /\ completed
                            /\ OutcomeFor(wf, "tracking") = "ok"]
    /\ scans' = scans + 1
    /\ proc' = "done"
    /\ UNCHANGED <<unread, toggles, scores_file, sender_scores, last_init, imp, sc, org, mailbox, watcher>>

\* The process ends; what it held in memory is gone.
Exit ==
    /\ proc \in {"ready", "done"}
    /\ proc' = "none"
    /\ email_tracking' = EmptyMap
    /\ contact_map' = EmptyMap
    /\ sender_scores' = EmptyMap
    /\ read_kept_stats' = EmptyMap
    /\ last_scan' = NoScan
    /\ last_write' = NoWrite
    /\ last_init' = "none"
    /\ UNCHANGED <<unread, tracking_file, contact_file, scores_file, behavior_file,
                   scans, toggles, faults, streak, chain, imp, sc, org, mailbox, watcher>>

ScanFaults == {<<0, "body">>} \cup ((1..NMsgs) \X FaultKinds)

Next ==
    \/ \E id \in Ids : MarkRead(id)
    \/ \E id \in Ids : MarkUnread(id)
    \/ \E wf \in WriteFaults : Construct(wf)
    \/ \E wf \in WriteFaults : AnalyzeSent(wf)
    \/ \E f \in ScanFaults : AnalyzeInbox(f[1], f[2])
    \/ Exit

Spec == Init /\ [][Next]_vars

-----------------------------------------------------------------------------
(* Scoring: scorer.score_email.  Scores, weights and bonuses are fixed-point
   numbers in thousandths. *)

\* config.DEFAULT_CONFIG, with the defaults score_email and recommend_action
\* give the keys it leaves out.  load_config merges the user's JSON over the
\* defaults without looking at the types: bad_types names the keys whose value
\* is no number (a JSON string or null); the number kept here under such a key
\* is the default, which the program no longer has.
DEFAULT_CONFIG ==
    [sender_weight |-> 400, topic_weight |-> 250, temporal_weight |-> 150,
     message_state_weight |-> 100, recipient_weight |-> 100,
     high_priority_threshold |-> 800, medium_priority_threshold |-> 500,
     off_hours_bonus |-> 50, unread_penalty |-> 200, ignore_penalty |-> 150,
     read_kept_bonus |-> 300, flagged_bonus |-> 150, due_today_bonus |-> 250,
     due_soon_bonus |-> 150, high_importance_bonus |-> 200, to_me_bonus |-> 150,
     direct_to_me_bonus |-> 100, many_recipients_penalty |-> 100,
     cc_me_penalty |-> 50, use_llm_for_content |-> TRUE, bad_types |-> {},
     absent |-> {}]

\* config.get(key, default); absent: the keys the dictionary does not hold
config_get(config, key, default) ==
    IF key \in config.absent THEN default ELSE config[key]

\* The keys whose value may be of a wrong type in this model
TypedKeys == {"sender_weight", "unread_penalty", "due_today_bonus",
              "high_priority_threshold"}

\* config.load_config for a user file that gives `keys` values of a wrong type
load_config(keys) == [DEFAULT_CONFIG EXCEPT !.bad_types = keys]

olFlagMarked == 2

olImportanceHigh == 2

\* Whether reading the property of the item raises a com_error: every read of
\* an item that is gone does, and the Subject read of some items
Raises(item, property_name) ==
    \/ item.fault = "gone"
    \/ item.fault = "subject_raises" /\ property_name = "Subject"

\* Lines 40-47: the sender as the message carries it
score_sender(item) ==
    IF HasAt(item.SenderEmailAddress) THEN item.SenderEmailAddress ELSE item.SenderName

\* sender.split('@')[-1].split('>')[0].lower()
sender_domain(sender) ==
    LET last == CHOOSE i \in 1..Len(sender) :
                    sender[i] = "@" /\ \A j \in (i + 1)..Len(sender) : sender[j] # "@"
        rest == SubSeq(sender, last + 1, Len(sender))
        gts  == {i \in 1..Len(rest) : rest[i] = ">"}
    IN  Lower(IF gts = {} THEN rest
              ELSE SubSeq(rest, 1, (CHOOSE i \in gts : \A j \in gts : i <= j) - 1))

\* Lines 76-92: the sender's score before the bonus.  The sender is looked up
\* as the message carries it; score_email is given no alias map.
base_sender_score(sender, scores) ==
    LET same_domain == {k \in DOMAIN scores :
                           HasAt(k) /\ sender_domain(k) # <<>>
                           /\ sender_domain(k) = sender_domain(sender)}
    IN  IF sender \in DOMAIN scores THEN scores[sender].normalized_score
        ELSE IF HasAt(sender) /\ same_domain # {}
        THEN SumSet(same_domain, [k \in same_domain |-> scores[k].normalized_score])
                 \div Cardinality(same_domain)
        ELSE 500

\* Lines 95-106
reopen_bonus_of(reopen_ratio) ==
    IF reopen_ratio > 500 THEN 200
    ELSE IF reopen_ratio > 200 THEN 100 ELSE 0

\* Lines 76-109
sender_score_of(sender, scores, reopen_ratio) ==
    Min(ONE, base_sender_score(sender, scores) + reopen_bonus_of(reopen_ratio))

\* Lines 117-122
category_priority(category) ==
    CASE category = "personal" -> 800
      [] category = "professional" -> 700
      [] category = "transactional" -> 600
      [] category = "general" -> 500
      [] category = "newsletter" -> 300
      [] category = "promotional" -> 200
      [] OTHER -> 500

\* Lines 125-130
urgency_score_of(content_analysis) ==
    LET level == content_analysis.urgency
        base  == CASE level = "high" -> 900
                   [] level = "urgent" -> 950
                   [] level = "medium" -> 600
                   [] level = "low" -> 300
                   [] OTHER -> 500
    IN  IF content_analysis.action_items # <<>> THEN Min(ONE, base + 100) ELSE base

\* Lines 135-154
recency_score_of(item, config) ==
    LET days_old == item.days_old
        base == IF days_old <= 1 THEN 950
                ELSE IF days_old <= 3 THEN 850
                ELSE IF days_old <= 7 THEN 750
                ELSE IF days_old <= 14 THEN 650
                ELSE IF days_old <= 30 THEN 500
                ELSE Max(100, 500 - (days_old * ONE) \div 365)
        threaded == IF Truthy(item.ConversationID) THEN Min(ONE, base + 50) ELSE base
    IN  IF item.hour < 8 \/ item.hour >= 18
        THEN Min(ONE, threaded + config.off_hours_bonus)
        ELSE threaded

\* Lines 185-199 with the raw penalty taken as it is
UncappedIgnorePenalty(config, was_unread_last, check_count) ==
    IF was_unread_last /\ check_count > 1
    THEN config.ignore_penalty * (check_count - 1)
    ELSE 0

\* Lines 185-199: the penalty for a message seen unread again and again
capped_ignore_penalty(config, was_unread_last, check_count) ==
    IF was_unread_last /\ check_count > 1
    THEN Min(400, config.ignore_penalty * (check_count - 1))
    ELSE 0

\* Lines 161-263.  The due date is converted to a naive datetime first (lines
\* 224-231), so the day difference is computed for every kind of date.  Adding
\* a due bonus that is no number raises inside the try of lines 221-252, whose
\* handler logs it: no due bonus is applied.
message_state_score_of(item, config, tracking) ==
    LET track_record == tracking[item.EntryID]
        ignored ==
            IF item.EntryID \in DOMAIN tracking
            THEN capped_ignore_penalty(config, ~track_record.is_currently_read,
                                       track_record.check_count)
            ELSE 0
        read_state == IF item.Unread THEN 0 - config.unread_penalty - ignored
                      ELSE config.read_kept_bonus
        due == IF ~item.FlagDueBy.set THEN 0
               ELSE IF item.FlagDueBy.days_until_due <= 0
               THEN IF "due_today_bonus" \in config.bad_types THEN 0
                    ELSE config.due_today_bonus
               ELSE IF item.FlagDueBy.days_until_due <= 2 THEN config.due_soon_bonus
               ELSE 0
        flagged == IF item.FlagStatus = olFlagMarked THEN config.flagged_bonus + due ELSE 0
        important == IF item.Importance = olImportanceHigh
                     THEN config.high_importance_bonus ELSE 0
    IN  500 + read_state + flagged + important

\* Lines 268-320; item.addressed tells where the current user's address is
recipient_score_of(item, config) ==
    CASE item.addressed = "to" ->
            500 + config.to_me_bonus
                + (IF item.recipient_count <= 3 THEN config.direct_to_me_bonus
                   ELSE IF item.recipient_count > 10 THEN 0 - config.many_recipients_penalty
                   ELSE 0)
      [] item.addressed = "cc" -> 500 - config.cc_me_penalty
      [] OTHER -> 500

\* Lines 38-65: what makes the metadata extraction raise.  A com_error of the
\* address read is handled by reading the name (lines 46-47); a Subject of
\* None raises at subject.lower().
extraction_raises(item) ==
    \/ Raises(item, "SenderEmailAddress") /\ Raises(item, "SenderName")
    \/ Raises(item, "Subject")
    \/ item.Subject = NoneVal

\* Line 351 without the clamp
Unclamped(final_score) == final_score

\* Line 351
clamp_final(final_score) == Max(0, Min(ONE, final_score))

\* Lines 324-351
final_score_of(config, components) ==
    LET total_weight == config.sender_weight + config.topic_weight + config.temporal_weight
                        + config.message_state_weight + config.recipient_weight
        Weight(w) == IF total_weight # ONE THEN (w * ONE) \div total_weight ELSE w
    IN  clamp_final((Weight(config.sender_weight) * components.sender_score
                     + Weight(config.topic_weight) * components.topic_score
                     + Weight(config.temporal_weight) * components.temporal_score
                     + Weight(config.message_state_weight) * components.message_state_score
                     + Weight(config.recipient_weight) * components.recipient_score)
                    \div ONE)

\* The None a failed scoring or recommendation returns
NoResult == [none |-> TRUE]

\* FlagDueBy: no due date, or the days from today to the due date.  `aware`
\* tells whether the datetime carries a time zone, as the pywintypes times of
\* a COM property do; a datetime built by hand carries none.
NoDueDate == [set |-> FALSE, days_until_due |-> 0, aware |-> FALSE]

DueIn(days) == [set |-> TRUE, days_until_due |-> days, aware |-> FALSE]

DueInAware(days) == [set |-> TRUE, days_until_due |-> days, aware |-> TRUE]

\* A value that is no number raises TypeError where it is used in arithmetic
\* outside the inner try blocks: the unread penalty of an unread message (line
\* 175), a weight in the sum of line 332.  The handler of lines 388-390
\* returns None.
type_error_in_score(item, config) ==
    \/ "sender_weight" \in config.bad_types
    \/ item.Unread /\ "unread_penalty" \in config.bad_types

\* scorer.score_email; NoResult when an exception ends it (lines 385-390): a
\* failed extraction, or weights that sum to 0 (division by zero, line 335).
\* item.content is what process_email_content returns for the item.
score_email(item, scores, email_patterns, config, tracking) ==
    IF extraction_raises(item) THEN NoResult
    ELSE IF type_error_in_score(item, config) THEN NoResult
    ELSE IF config.sender_weight + config.topic_weight + config.temporal_weight
            + config.message_state_weight + config.recipient_weight = 0
    THEN NoResult
    ELSE LET sender == score_sender(item)
             urgency_score == urgency_score_of(item.content)
             recency_score == recency_score_of(item, config)
             components ==
                 [sender_score |-> sender_score_of(sender, scores,
                                                   GetOr(email_patterns, sender, 0)),
                  topic_score |-> category_priority(item.content.category),
                  temporal_score |-> (400 * recency_score + 600 * urgency_score) \div ONE,
                  message_state_score |-> message_state_score_of(item, config, tracking),
                  recipient_score |-> recipient_score_of(item, config)]
         IN  [final_score |-> final_score_of(config, components),
              components  |-> components,
              metadata    |-> [sender |-> sender,
                               content_analysis |-> item.content,
                               is_unread |-> item.Unread,
                               is_flagged |-> item.FlagStatus = olFlagMarked,
                               importance |-> item.Importance,
                               flag_due_by |-> item.FlagDueBy]]

\* str.capitalize() of the category names
Capitalize(category) ==
    CASE category = "personal" -> "Personal"
      [] category = "professional" -> "Professional"
      [] category = "transactional" -> "Transactional"
      [] category = "general" -> "General"
      [] category = "newsletter" -> "Newsletter"
      [] category = "promotional" -> "Promotional"

\* Lines 435-447: due_today.  The raw FlagDueBy of the metadata is used: for a
\* datetime with a time zone, due_date - today (a naive datetime) raises
\* TypeError, which the handler at line 446 logs, and due_today stays False.
due_today_of(flag_due_by) ==
    /\ flag_due_by.set
    /\ ~flag_due_by.aware
    /\ flag_due_by.days_until_due <= 0

\* Lines 504-516 with the folder and the archive mark left as they are
KeepsFolder(r, action_items) ==
    IF action_items # <<>> THEN [r EXCEPT !.create_task = TRUE] ELSE r

\* Lines 504-516 with the archive mark left on a message that has action items
ArchivesDespiteActionItems(r, action_items) ==
    IF action_items # <<>> /\ r.auto_archive
    THEN [r EXCEPT !.folder = "Action Required", !.create_task = TRUE]
    ELSE r

\* Lines 504-516: the adjustment for action items
adjust_for_action_items(r, action_items) ==
    IF /\ action_items # <<>>
       /\ r.folder \notin {"High Priority", "Medium Priority", "Due Today", "Important"}
    THEN IF r.auto_archive
         THEN [r EXCEPT !.folder = "Action Required", !.auto_archive = FALSE,
                        !.create_task = TRUE]
         ELSE IF r.folder \in {"General", "Newsletter", "Promotional", "Transactional"}
         THEN [r EXCEPT !.folder = "Action Required", !.create_task = TRUE]
         ELSE [r EXCEPT !.create_task = TRUE]
    ELSE IF action_items # <<>> THEN [r EXCEPT !.create_task = TRUE]
    ELSE r

\* The content service handed to recommend_action: None, or an object whose
\* generate_folder_name raises or returns `answer`
NoLlm == [present |-> FALSE, raises |-> FALSE, answer |-> ""]

LlmServices ==
    {NoLlm,
     [present |-> TRUE, raises |-> TRUE, answer |-> ""],
     [present |-> TRUE, raises |-> FALSE, answer |-> ""],
     [present |-> TRUE, raises |-> FALSE, answer |-> "Miscellaneous"],
     [present |-> TRUE, raises |-> FALSE, answer |-> "Projects"]}

\* topics[0].capitalize() of the topics of this model
CapitalizeTopic(topic) ==
    CASE topic = "budget" -> "Budget"
      [] topic = "travel" -> "Travel"

\* Lines 478-502: the folder of a category other than promotional and
\* newsletter.  The content service is asked only for a personal or
\* professional message, with use_llm_for_content set and a service at hand;
\* the leading topic is used only inside that branch.
category_folder(category, topics, config, llm) ==
    IF category \in {"personal", "professional"} /\ config.use_llm_for_content
       /\ llm.present
    THEN IF llm.raises THEN Capitalize(category)
         ELSE IF llm.answer \notin {"", "Miscellaneous"}
         THEN Capitalize(category) \o "/" \o llm.answer
         ELSE IF topics # <<>>
         THEN Capitalize(category) \o "/" \o CapitalizeTopic(topics[1])
         ELSE Capitalize(category)
    ELSE Capitalize(category)

\* Line 451: the threshold of the high-importance rule
importance_threshold(config) == config_get(config, "high_priority_threshold", 700)

\* Line 459: the threshold of the priority-folder rule
high_priority_threshold(config) == config_get(config, "high_priority_threshold", 800)

\* Lines 427-516 of recommend_action
recommend_from(score_data, config, llm) ==
    LET final_score == score_data.final_score
        category    == score_data.metadata.content_analysis.category
        topics      == score_data.metadata.content_analysis.topics
        action_items == score_data.metadata.content_analysis.action_items
        flag_due_by == score_data.metadata.flag_due_by
        importance  == score_data.metadata.importance
        due_today   == due_today_of(flag_due_by)
        r1 == IF due_today
              THEN [folder |-> "Due Today", flag |-> TRUE, create_task |-> TRUE,
                    auto_archive |-> FALSE]
              ELSE [folder |-> "General", flag |-> FALSE, create_task |-> FALSE,
                    auto_archive |-> FALSE]
        r2 == IF ~due_today /\ importance = olImportanceHigh
              THEN [r1 EXCEPT !.folder = IF final_score >= importance_threshold(config)
                                         THEN "High Priority" ELSE "Important",
                              !.flag = TRUE]
              ELSE r1
        r3 == IF ~due_today /\ r2.folder \notin {"High Priority", "Important", "Due Today"}
              THEN IF final_score >= high_priority_threshold(config)
                   THEN [r2 EXCEPT !.folder = "High Priority", !.flag = TRUE,
                                   !.create_task = TRUE]
                   ELSE IF final_score >= config.medium_priority_threshold
                   THEN [r2 EXCEPT !.folder = "Medium Priority", !.flag = TRUE]
                   ELSE r2
              ELSE r2
        r4 == IF r3.folder = "General"
              THEN IF category \in {"promotional", "newsletter"}
                   THEN IF final_score < 300
                        THEN [r3 EXCEPT !.folder = "Archive/" \o Capitalize(category),
                                        !.auto_archive = TRUE]
                        ELSE [r3 EXCEPT !.folder = Capitalize(category)]
                   ELSE [r3 EXCEPT !.folder = category_folder(category, topics, config, llm)]
              ELSE r3
        r5 == adjust_for_action_items(r4, action_items)
    IN  [folder |-> r5.folder, flag |-> r5.flag, create_task |-> r5.create_task,
         auto_archive |-> r5.auto_archive, score |-> final_score]

\* recommend_action left by an exception instead of a return
Raised == [raised |-> TRUE]

\* Lines 450-463: the score is compared with high_priority_threshold unless the
\* message is due today; final_score >= <no number> raises TypeError, and
\* recommend_action has no handler.
type_error_in_recommend(score_data, config) ==
    /\ ~due_today_of(score_data.metadata.flag_due_by)
    /\ "high_priority_threshold" \in config.bad_types

\* scorer.recommend_action: no recommendation when scoring gave none (409-412)
recommend_action(item, scores, email_patterns, config, llm, tracking) ==
    LET score_data == score_email(item, scores, email_patterns, config, tracking)
    IN  IF score_data = NoResult THEN NoResult
        ELSE IF type_error_in_recommend(score_data, config) THEN Raised
        ELSE recommend_from(score_data, config, llm)

-----------------------------------------------------------------------------
(* Properties of the analyzer's life (specification Spec) *)

\* C1: for a message that every scan so far has observed, with every scan
\* completed and its tracking snapshot written (so each run reloads what the
\* last one stored), check_count equals the number of consecutive scans that
\* have seen it unread since its first observation or since the last scan that
\* saw it read: N after N unread scans, 0 after a read scan, 1 after the next
\* unread scan.
C1_CheckCountIsUnreadStreak ==
    \A id \in Ids :
        (scans > 0 /\ chain[id]) =>
            /\ tracking_file.state = "ok"
            /\ id \in DOMAIN tracking_file.data
            /\ tracking_file.data[id].check_count = streak[id]
            /\ proc = "done" => /\ id \in DOMAIN email_tracking
                                /\ email_tracking[id].check_count = streak[id]

\* Message 1 seen unread, then read, then unread again by three scans: its
\* check_count is 1.
C1_Witness ==
    /\ scans = 3
    /\ toggles = 2
    /\ chain[1]
    /\ 1 \in unread
    /\ streak[1] = 1
    /\ tracking_file.state = "ok"
    /\ tracking_file.data[1].check_count = 1

\* C2: a scan that an exception ends inside the item loop writes nothing to
\* the tracking snapshot on disk: the file is the one the scan found.
C2_AbortedScanKeepsSnapshot ==
    [][(scans' = scans + 1 /\ last_scan'.outcome = "aborted")
          => tracking_file' = tracking_file]_vars

\* An aborted scan that had already changed records in memory, over a
\* snapshot an earlier scan wrote.
C2_Witness ==
    /\ proc = "done"
    /\ last_scan.outcome = "aborted"
    /\ last_scan.observed # {}
    /\ tracking_file.state = "ok"
    /\ tracking_file.data # EmptyMap
    /\ email_tracking # tracking_file.data

\* C3: a snapshot write that fails leaves what the next run loads from that
\* file as it was.
C3_FailedWriteKeepsSnapshot ==
    [][/\ (last_write'.file = "tracking" /\ last_write'.outcome # "ok")
            => load_pickle(tracking_file') = load_pickle(tracking_file)
       /\ (last_write'.file = "scores" /\ last_write'.outcome # "ok")
            => load_pickle(scores_file') = load_pickle(scores_file)
       /\ (last_write'.file = "contact" /\ last_write'.outcome # "ok")
            => load_pickle(contact_file') = load_pickle(contact_file)]_vars

\* C4: the alias map the resolver has built maps the lower-case display name
\* of every tracked message that carries a name and an address to that
\* address.
C4_DirectPairWins ==
    (proc = "ready" /\ last_init = "rebuilt") =>
        \A id \in DOMAIN email_tracking :
            LET name  == Lower(email_tracking[id].sender_name)
                email == Lower(email_tracking[id].sender_email)
            IN  HasAt(email) => /\ name \in DOMAIN contact_map
                                /\ contact_map[name] = email

\* The identifiers normalization is applied to
Identifiers ==
    {NoneVal, <<>>, JOHN_DOE, JD, UNKNOWN_NAME, JDOE_ADDR, JOHN_DOE_OTHER, U_ADDR, EXCH_ADDR}

\* C5: normalizing twice gives what normalizing once gives, for every
\* identifier and every alias map the analyzer holds.
C5_NormalizeIdempotent ==
    \A x \in Identifiers :
        normalize_contact(contact_map, normalize_contact(contact_map, x))
            = normalize_contact(contact_map, x)

\* The Inbox messages a reply of the Sent Items answers: the most recent
\* message of the reply's conversation received before the reply was sent.
ReplyParents ==
    {id \in Ids :
        \E i \in 1..Len(SentItems) :
            /\ StartsWith(Lower(SentItems[i].Subject), RE_PREFIX)
            /\ MailItem(id, {}).ConversationID = SentItems[i].ConversationID
            /\ MailItem(id, {}).ReceivedTime < SentItems[i].SentOn
            /\ \A other \in Ids :
                  (/\ MailItem(other, {}).ConversationID = SentItems[i].ConversationID
                   /\ MailItem(other, {}).ReceivedTime < SentItems[i].SentOn)
                  => MailItem(other, {}).ReceivedTime <= MailItem(id, {}).ReceivedTime}

\* C9: after the sent-items analysis, the normalized sender of every message
\* that a sent reply answers has reply_count >= 1 in the importance scores.
C9_ReplyAttributed ==
    (proc = "sent_done" /\ ReplyParents \subseteq DOMAIN email_tracking) =>
        \A id \in ReplyParents :
            LET parent_sender == normalize_contact(contact_map, get_sender_address(MailItem(id, unread)))
            IN  /\ parent_sender \in DOMAIN sender_scores
                /\ sender_scores[parent_sender].reply_count >= 1

\* C10: after a completed scan, each sender's read-and-kept count is the
\* number of messages from that sender the scan found read in the Inbox.
C10_ReadKeptCounted ==
    (proc = "done" /\ last_scan.outcome = "completed") =>
        \A s \in DOMAIN read_kept_stats :
            read_kept_stats[s].count
                = Cardinality({id \in last_scan.observed :
                                  /\ id \notin unread
                                  /\ MailItem(id, unread).Parent.FolderPath = INBOX_PATH
                                  /\ email_tracking[id].sender = s})

\* C16: a display name that is a key of the alias map, in memory or in the
\* persisted snapshot, is still a key of the persisted snapshot after every
\* step, and of the map in memory after every step of a running analyzer.
C16_AliasKeysNeverLost ==
    [][/\ DOMAIN load_pickle(contact_file) \subseteq DOMAIN load_pickle(contact_file')
       /\ proc' # "none" =>
              (DOMAIN contact_map \cup DOMAIN load_pickle(contact_file))
                  \subseteq DOMAIN contact_map']_vars

\* C17: no key of the alias map, in memory or persisted, contains '@'.
C17_NoAddressKey ==
    \A k \in DOMAIN contact_map \cup DOMAIN load_pickle(contact_file) : ~HasAt(k)

\* C18: after a resolver initialization that had to build the map, every
\* tracking record that carries a display name and an address has its name in
\* the map, also when another record of the store holds a None field.
C18_OtherRecordsStillAliased ==
    (proc = "ready" /\ last_init \in {"rebuilt", "failed"}) =>
        \A id \in DOMAIN email_tracking :
            LET data == email_tracking[id]
            IN  (/\ Truthy(data.sender_name)
                 /\ Truthy(data.sender_email)
                 /\ HasAt(data.sender_email)) =>
                    Lower(data.sender_name) \in DOMAIN contact_map

\* C19: a scan in which the processing of one item raised has skipped that
\* item only: it processed every other item, reached its end and wrote the
\* tracking snapshot.
C19_ScanSurvivesItemError ==
    (proc = "done" /\ last_scan.raised # 0) =>
        /\ last_scan.outcome = "completed"
        /\ last_scan.observed = Ids \ {last_scan.raised}
        /\ last_write.file # "tracking" => tracking_file = Stored(email_tracking)

\* C24: in every tracking record, in memory and in the stored snapshot,
\* check_count is 0 exactly when the stored read state is read and at least
\* 1 exactly when it is unread.
CountMatchesReadState(record) ==
    /\ record.check_count = 0 <=> record.is_currently_read
    /\ record.check_count >= 1 <=> ~record.is_currently_read

C24_CheckCountMatchesReadState ==
    /\ \A id \in DOMAIN email_tracking : CountMatchesReadState(email_tracking[id])
    /\ \A id \in DOMAIN tracking_file.data : CountMatchesReadState(tracking_file.data[id])

\* After three scans and a reload between them: one message read at the last
\* scan, one unread for all three
C24_Witness ==
    /\ scans = 3
    /\ tracking_file.state = "ok"
    /\ \E id1, id2 \in DOMAIN tracking_file.data :
          /\ tracking_file.data[id1].is_currently_read
          /\ tracking_file.data[id1].check_count = 0
          /\ ~tracking_file.data[id2].is_currently_read
          /\ tracking_file.data[id2].check_count = 3
    /\ email_tracking = tracking_file.data

-----------------------------------------------------------------------------
(* The importance build on its own (specification SpecImportance): any alias
   map, responses, initiations and read-and-kept statistics within the bounds,
   then one build. *)

MaxInitiations == 2

MaxReadKept == 1

JOHN_DOE_LOWER == Lower(JOHN_DOE)

ImpContacts == {JDOE_ADDR, JOHN_DOE_LOWER, U_ADDR}

\* n responses with the given latency (hours) and body length, one per `step` days
Responses(n, hours, length, step) ==
    [i \in 1..n |-> [response_time |-> hours, response_length |-> length,
                     sent_date |-> i * step]]

\* No response; fewer responses than a pattern needs; prompt ones on one day;
\* slow, long ones over several days; and enough responses, one of them with a
\* negative latency.
ResponseLists ==
    {<<>>,
     Responses(min_emails_for_pattern - 1, 2, 250, 0),
     Responses(min_emails_for_pattern, 2, 250, 0),
     Responses(min_emails_for_pattern, 48, 1000, 3),
     Responses(min_emails_for_pattern - 1, 2, 250, 1) \o Responses(1, -1, 10, 1)}

\* A map of the contacts with a non-default value
Sparse(f, default) == [c \in {d \in DOMAIN f : f[d] # default} |-> f[c]]

OTHER_ADDR == <<"a","@","o","t","h","e","r",".","c","o","m">>

\* A snapshot of an earlier run: a contact this run does not meet, and one it
\* may meet
ImpPrior ==
    (OTHER_ADDR :> [raw_score |-> 3500, reply_count |-> 0, initiation_count |-> 7,
                    read_kept_count |-> 0, total_interactions |-> 7,
                    normalized_score |-> ONE, score |-> ONE])
    @@ (JDOE_ADDR :> [raw_score |-> 0, reply_count |-> 0, initiation_count |-> 0,
                      read_kept_count |-> 0, total_interactions |-> 99,
                      normalized_score |-> 0, score |-> 0])

ImpInputs ==
    {[phase |-> "input",
      cmap |-> cm,
      response_data |-> Sparse((JDOE_ADDR :> r1) @@ (JOHN_DOE_LOWER :> r2), <<>>),
      sender_initiations |-> Sparse([c \in ImpContacts |-> [count |-> ini[c]]], [count |-> 0]),
      stats |-> [c \in ImpContacts |-> [count |-> rk[c]]],
      scores |-> prior] :
        prior \in {EmptyMap, ImpPrior},
        cm \in {EmptyMap, (JOHN_DOE_LOWER :> JDOE_ADDR)},
        r1 \in ResponseLists,
        r2 \in {<<>>, Responses(min_emails_for_pattern, 2, 250, 0)},
        ini \in [ImpContacts -> 0..MaxInitiations],
        rk \in [ImpContacts -> 0..MaxReadKept]}

ImpInit ==
    /\ AnalyzerInit
    /\ watcher = IdleWatcher
    /\ mailbox = InboxSenders
    /\ imp \in ImpInputs
    /\ sc = IdleSc
    /\ org = IdleOrg

\* One call of _calculate_contact_importance
ImpBuild ==
    /\ imp.phase = "input"
    /\ imp' = [imp EXCEPT !.phase = "built",
                          !.scores = calculate_contact_importance(
                                         imp.cmap, imp.response_data,
                                         imp.sender_initiations, imp.stats)]
    /\ UNCHANGED <<analyzer_vars, sc, org, watcher>>

ImpNext == ImpBuild

SpecImportance == ImpInit /\ [][ImpNext]_vars

\* C6: after an importance build every record's normalized_score lies in
\* [0, 1], whatever the reply, initiation and read-and-kept counts and however
\* many contacts are retained.
C6_NormalizedScoreInUnitRange ==
    imp.phase = "built" =>
        \A c \in DOMAIN imp.scores :
            /\ 0 <= imp.scores[c].normalized_score
            /\ imp.scores[c].normalized_score <= ONE
            /\ imp.scores[c].score = imp.scores[c].normalized_score

\* A build that retains three contacts, two of them with the same raw score
\* and one with replies and a raw score above 1.
C6_Witness ==
    /\ imp.phase = "built"
    /\ Cardinality(DOMAIN imp.scores) = 3
    /\ \E c1, c2 \in DOMAIN imp.scores :
          /\ c1 # c2
          /\ imp.scores[c1].raw_score = imp.scores[c2].raw_score
    /\ \E c \in DOMAIN imp.scores :
          /\ imp.scores[c].reply_count > 0
          /\ imp.scores[c].raw_score > ONE
          /\ imp.scores[c].normalized_score = ONE

\* C15: after an importance build the snapshot holds exactly the canonical
\* contacts of this run's inputs whose total interaction count is above 0,
\* each with the record this run computed; nothing of the prior snapshot
\* remains.
C15_SnapshotReplaced ==
    imp.phase = "built" =>
        LET all_contacts == DOMAIN imp.response_data \cup DOMAIN imp.sender_initiations
                            \cup DOMAIN imp.stats
            canonical == {normalize_contact(imp.cmap, c) : c \in all_contacts}
            Fresh(c)  == contact_record(c, imp.cmap, imp.response_data,
                                        imp.sender_initiations, imp.stats)
        IN  /\ DOMAIN imp.scores = {c \in canonical : Fresh(c).total_interactions > 0}
            /\ \A c \in DOMAIN imp.scores :
                   /\ imp.scores[c].total_interactions = Fresh(c).total_interactions
                   /\ imp.scores[c].raw_score = Fresh(c).raw_score

\* A build over a prior snapshot that drops a contact without interaction and
\* keeps one whose prior record said otherwise
C15_Witness ==
    /\ imp.phase = "built"
    /\ JDOE_ADDR \in DOMAIN imp.scores
    /\ imp.scores[JDOE_ADDR].total_interactions # 99
    /\ OTHER_ADDR \notin DOMAIN imp.scores
    /\ \E c \in DOMAIN imp.stats : normalize_contact(imp.cmap, c) \notin DOMAIN imp.scores

\* C22: when the build retains exactly one contact, its normalized_score and
\* the score stored beside it are both 0.6.
C22_SingleContactScore ==
    (imp.phase = "built" /\ Cardinality(DOMAIN imp.scores) = 1) =>
        \A c \in DOMAIN imp.scores :
            /\ imp.scores[c].normalized_score = 600
            /\ imp.scores[c].score = 600

\* A build that retains one contact out of three, with a raw score that is
\* not 0.6
C22_Witness ==
    /\ imp.phase = "built"
    /\ DOMAIN imp.scores = {JDOE_ADDR}
    /\ Cardinality(DOMAIN imp.stats) = 3
    /\ imp.scores[JDOE_ADDR].raw_score > ONE
    /\ imp.scores[JDOE_ADDR].score = 600

-----------------------------------------------------------------------------
(* Scoring on its own (specification SpecScore): any message and any
   configuration of the sets below, then one call of score_email or of
   recommend_action. *)

CONV_ID == <<"c","1">>

\* The importance scores, sender ratios and tracking store handed to the scorer
ScoreSenderScores ==
    (JDOE_ADDR :> [normalized_score |-> ONE])
    @@ (Lower(JOHN_DOE_OTHER) :> [normalized_score |-> 0])
    @@ (OTHER_ADDR :> [normalized_score |-> 600])

ScorePatterns == (JDOE_ADDR :> 600)

ScoreTracking ==
    (1 :> [is_currently_read |-> FALSE, check_count |-> 1])
    @@ (2 :> [is_currently_read |-> FALSE, check_count |-> 3])
    @@ (3 :> [is_currently_read |-> FALSE, check_count |-> 4])
    @@ (4 :> [is_currently_read |-> TRUE, check_count |-> 3])

NoContent ==
    [category |-> "general", urgency |-> "medium", action_items |-> <<>>, topics |-> <<>>]

ScoreContents ==
    {NoContent,
     [category |-> "promotional", urgency |-> "low", action_items |-> <<>>,
      topics |-> <<"travel">>],
     [category |-> "promotional", urgency |-> "low", action_items |-> <<"reply">>,
      topics |-> <<>>],
     [category |-> "newsletter", urgency |-> "low", action_items |-> <<>>, topics |-> <<>>],
     [category |-> "personal", urgency |-> "urgent", action_items |-> <<"reply">>,
      topics |-> <<"budget", "travel">>],
     [category |-> "professional", urgency |-> "low", action_items |-> <<>>,
      topics |-> <<>>]}

\* Messages whose reads succeed
SoundItems ==
    {[fault |-> "none", Subject |-> HELLO, SenderName |-> JOHN_DOE,
      SenderEmailAddress |-> addr, EntryID |-> st[1], Unread |-> st[2],
      FlagStatus |-> fl[1], FlagDueBy |-> fl[2], Importance |-> importance,
      addressed |-> rc[1], recipient_count |-> rc[2], content |-> content,
      days_old |-> tm[1], hour |-> tm[2], ConversationID |-> tm[3]] :
        addr \in {JDOE_ADDR, JOHN_DOE_OTHER, EXCH_ADDR},
        st \in {<<1, FALSE>>, <<1, TRUE>>, <<2, TRUE>>, <<3, TRUE>>, <<4, TRUE>>,
                <<5, TRUE>>},
        fl \in {<<0, NoDueDate>>, <<0, DueIn(0)>>, <<olFlagMarked, NoDueDate>>,
                <<olFlagMarked, DueIn(0)>>, <<olFlagMarked, DueInAware(0)>>},
        importance \in {1, olImportanceHigh},
        rc \in {<<"none", 0>>, <<"to", 1>>, <<"to", 11>>, <<"cc", 5>>},
        content \in ScoreContents,
        tm \in {<<0, 20, CONV_ID>>, <<400, 10, NoneVal>>}}

PlainItem ==
    [fault |-> "none", Subject |-> HELLO, SenderName |-> JOHN_DOE,
     SenderEmailAddress |-> JDOE_ADDR, EntryID |-> 1, Unread |-> TRUE,
     FlagStatus |-> 0, FlagDueBy |-> NoDueDate, Importance |-> 1,
     addressed |-> "none", recipient_count |-> 0, content |-> NoContent,
     days_old |-> 0, hour |-> 10, ConversationID |-> CONV_ID]

\* Messages whose extraction fails: the Subject is None, reading the Subject
\* raises, or the item is gone and every read raises
FailingItems ==
    {[PlainItem EXCEPT !.Subject = NoneVal],
     [PlainItem EXCEPT !.fault = "subject_raises"],
     [PlainItem EXCEPT !.fault = "gone"]}

\* The defaults; weights that sum to 0; all the weight on the message state
\* with a bonus or a penalty that takes it out of [0, 1]; a negative weight;
\* weights that do not sum to 1; weights with a negative sum.
ScoreConfigs ==
    {DEFAULT_CONFIG,
     [DEFAULT_CONFIG EXCEPT !.sender_weight = 0, !.topic_weight = 0, !.temporal_weight = 0,
                            !.message_state_weight = 0, !.recipient_weight = 0],
     [DEFAULT_CONFIG EXCEPT !.sender_weight = 0, !.topic_weight = 0, !.temporal_weight = 0,
                            !.message_state_weight = ONE, !.recipient_weight = 0,
                            !.read_kept_bonus = ONE],
     [DEFAULT_CONFIG EXCEPT !.sender_weight = 0, !.topic_weight = 0, !.temporal_weight = 0,
                            !.message_state_weight = ONE, !.recipient_weight = 0,
                            !.unread_penalty = 800],
     [DEFAULT_CONFIG EXCEPT !.sender_weight = -500, !.message_state_weight = 2000],
     [DEFAULT_CONFIG EXCEPT !.sender_weight = 2000, !.topic_weight = 2000,
                            !.recipient_weight = 3000],
     [DEFAULT_CONFIG EXCEPT !.sender_weight = 400, !.topic_weight = -400,
                            !.temporal_weight = 0, !.message_state_weight = 0,
                            !.recipient_weight = 0],
     [DEFAULT_CONFIG EXCEPT !.sender_weight = -400, !.topic_weight = -250]}
    \cup {load_config({k}) : k \in TypedKeys}
    \cup {[DEFAULT_CONFIG EXCEPT !.absent = {"high_priority_threshold"}],
          [DEFAULT_CONFIG EXCEPT !.use_llm_for_content = FALSE]}

ScoreInit ==
    /\ AnalyzerInit
    /\ watcher = IdleWatcher
    /\ mailbox = InboxSenders
    /\ imp = IdleImp
    /\ sc \in [phase : {"input"}, item : SoundItems \cup FailingItems,
               config : ScoreConfigs, llm : {NoLlm}, result : {NoResult}]
    /\ org = IdleOrg

\* One call of score_email
ScoreEmail ==
    /\ sc.phase = "input"
    /\ sc' = [sc EXCEPT !.phase = "scored",
                        !.result = score_email(sc.item, ScoreSenderScores, ScorePatterns,
                                               sc.config, ScoreTracking)]
    /\ UNCHANGED <<analyzer_vars, imp, org, watcher>>

\* The content services a call is made with: the service is consulted for
\* personal and professional messages only
LlmFor(item) ==
    IF item.content.category \in {"personal", "professional"} THEN LlmServices
    ELSE {NoLlm}

\* One call of recommend_action
RecommendAction ==
    /\ sc.phase = "input"
    /\ \E llm \in LlmFor(sc.item) :
          sc' = [sc EXCEPT !.phase = "recommended",
                           !.llm = llm,
                           !.result = recommend_action(sc.item, ScoreSenderScores,
                                                       ScorePatterns, sc.config, llm,
                                                       ScoreTracking)]
    /\ UNCHANGED <<analyzer_vars, imp, org, watcher>>

ScoreNext == ScoreEmail \/ RecommendAction

SpecScore == ScoreInit /\ [][ScoreNext]_vars

\* C7: every result score_email returns has final_score in [0, 1], whatever
\* the weights and whatever the component scores, also those outside [0, 1].
C7_FinalScoreInUnitRange ==
    (sc.phase = "scored" /\ sc.result # NoResult) =>
        /\ 0 <= sc.result.final_score
        /\ sc.result.final_score <= ONE

\* A message state score of 1.5 or more carrying all the weight: the final
\* score is 1.
C7_Witness ==
    /\ sc.phase = "scored"
    /\ sc.result # NoResult
    /\ sc.result.components.message_state_score >= 1500
    /\ sc.config.message_state_weight = ONE
    /\ sc.config.sender_weight = 0
    /\ sc.result.final_score = ONE

\* The alias map the analyzer holds when the messages are scored
ScoreContactMap == (Lower(JOHN_DOE) :> JDOE_ADDR)

\* C11: when the sender of a scored message resolves through the alias map to
\* a contact of the importance snapshot, sender_score is that contact's
\* normalized_score plus the reopen bonus, capped at 1.
C11_SenderScoreOfResolvedContact ==
    (sc.phase = "scored" /\ sc.result # NoResult) =>
        LET sender   == sc.result.metadata.sender
            resolved == normalize_contact(ScoreContactMap, sender)
        IN  resolved \in DOMAIN ScoreSenderScores =>
                sc.result.components.sender_score =
                    Min(ONE, ScoreSenderScores[resolved].normalized_score
                             + reopen_bonus_of(GetOr(ScorePatterns, sender, 0)))

\* C12: a message flagged with a due date of today or earlier is recommended
\* the folder "Due Today" with flag and create_task set, whatever its score,
\* importance, category and action items.
C12_DueTodayWins ==
    (/\ sc.phase = "recommended"
     /\ sc.result \notin {NoResult, Raised}
     /\ sc.item.FlagStatus = olFlagMarked
     /\ sc.item.FlagDueBy.set
     /\ sc.item.FlagDueBy.days_until_due <= 0) =>
        /\ sc.result.folder = "Due Today"
        /\ sc.result.flag
        /\ sc.result.create_task

\* C13: a promotional or newsletter message that is not due today and not of
\* high importance, with a final score below 0.3, is recommended
\* "Archive/<Category>" with auto_archive when it has no action items, and
\* "Action Required" without auto_archive and with a task when it has some.
C13_LowScorePromotional ==
    (/\ sc.phase = "recommended"
     /\ sc.result \notin {NoResult, Raised}
     /\ sc.item.content.category \in {"promotional", "newsletter"}
     /\ ~sc.item.FlagDueBy.set
     /\ sc.item.Importance # olImportanceHigh
     /\ sc.result.score < 300) =>
        IF sc.item.content.action_items = <<>>
        THEN /\ sc.result.folder = "Archive/" \o Capitalize(sc.item.content.category)
             /\ sc.result.auto_archive
        ELSE /\ sc.result.folder = "Action Required"
             /\ ~sc.result.auto_archive
             /\ sc.result.create_task

\* A promotional message with an action item and a score below 0.3, moved out
\* of the archive path
C13_Witness ==
    /\ sc.phase = "recommended"
    /\ sc.result \notin {NoResult, Raised}
    /\ sc.item.content.category = "promotional"
    /\ sc.item.content.action_items # <<>>
    /\ ~sc.item.FlagDueBy.set
    /\ sc.item.Importance # olImportanceHigh
    /\ sc.result.score < 300
    /\ sc.result.folder = "Action Required"

\* The check counts a tracking record can hold in this model
MaxCheckCount == 6

C20_BadTypeFallsBackToDefault ==
    (sc.phase \in {"scored", "recommended"} /\ sc.config.bad_types # {}) =>
        LET defaults == [sc.config EXCEPT !.bad_types = {}]
        IN  sc.result = IF sc.phase = "scored"
                        THEN score_email(sc.item, ScoreSenderScores, ScorePatterns,
                                         defaults, ScoreTracking)
                        ELSE recommend_action(sc.item, ScoreSenderScores, ScorePatterns,
                                              defaults, sc.llm, ScoreTracking)

\* C25: "Due Today" is recommended only for a message whose flag is marked
\* and whose due date is today or earlier, and for exactly the messages that
\* scoring gives the due-today bonus.
DueTodayBonusApplies(item) ==
    /\ item.FlagStatus = olFlagMarked
    /\ item.FlagDueBy.set
    /\ item.FlagDueBy.days_until_due <= 0

C25_DueTodayOnlyWhenFlagged ==
    (sc.phase = "recommended" /\ sc.result \notin {NoResult, Raised}) =>
        /\ sc.result.folder = "Due Today" =>
               /\ sc.item.FlagStatus = olFlagMarked
               /\ sc.item.FlagDueBy.set
               /\ sc.item.FlagDueBy.days_until_due <= 0
        /\ sc.result.folder = "Due Today" <=> DueTodayBonusApplies(sc.item)

\* C26: for a personal or professional message that rules 1-4 leave alone,
\* when the content service gives no usable name (absent, disabled, raising,
\* or answering nothing or "Miscellaneous"), the folder is the category with
\* the leading topic below it if there is a topic, and the bare category
\* otherwise.
C26_TopicFallback ==
    (/\ sc.phase = "recommended"
     /\ sc.result \notin {NoResult, Raised}
     /\ sc.item.content.category \in {"personal", "professional"}
     /\ sc.result.folder \notin {"Due Today", "High Priority", "Important",
                                 "Medium Priority"}
     /\ \/ ~sc.llm.present
        \/ ~sc.config.use_llm_for_content
        \/ sc.llm.raises
        \/ sc.llm.answer \in {"", "Miscellaneous"}) =>
        sc.result.folder =
            IF sc.item.content.topics # <<>>
            THEN Capitalize(sc.item.content.category) \o "/"
                     \o CapitalizeTopic(sc.item.content.topics[1])
            ELSE Capitalize(sc.item.content.category)

C28_AutoArchiveIsQuiet ==
    (/\ sc.phase = "recommended"
     /\ sc.result \notin {NoResult, Raised}
     /\ sc.result.auto_archive) =>
        /\ sc.result.folder \in {"Archive/Promotional", "Archive/Newsletter"}
        /\ ~sc.result.flag
        /\ ~sc.result.create_task
        /\ sc.item.content.action_items = <<>>

\* Archived promotions and newsletters, under configurations with other
\* weights too
C28_Witness ==
    /\ sc.phase = "recommended"
    /\ sc.result \notin {NoResult, Raised}
    /\ sc.result.auto_archive
    /\ sc.result.folder = "Archive/Newsletter"
    /\ sc.result.score < 300
    /\ sc.config # DEFAULT_CONFIG

-----------------------------------------------------------------------------
(* Batch organization: organizer.organize_inbox, one loop iteration per step
   (specification SpecOrganize). *)

OrgLen == 3

ZeroStats ==
    [processed |-> 0, moved |-> 0, flagged |-> 0, task_created |-> 0,
     high_priority |-> 0, medium_priority |-> 0, action_required |-> 0,
     category_folders |-> 0, archived |-> 0, errors |-> 0, skipped_subfolder |-> 0]

\* The messages a batch can hold: an ordinary one; an important one; a
\* promotion; one whose Subject is None; one whose Subject read raises; one
\* that is gone; one that lies in a subfolder; one that is no mail item.
OrgKinds ==
    {[item |-> PlainItem, Class |-> olMail, in_inbox |-> TRUE],
     [item |-> [PlainItem EXCEPT !.Importance = olImportanceHigh, !.Unread = FALSE],
      Class |-> olMail, in_inbox |-> TRUE],
     [item |-> [PlainItem EXCEPT !.SenderEmailAddress = JOHN_DOE_OTHER,
                                 !.content = [category |-> "promotional", urgency |-> "low",
                                              action_items |-> <<>>, topics |-> <<>>],
                                 !.days_old = 400, !.ConversationID = NoneVal],
      Class |-> olMail, in_inbox |-> TRUE],
     [item |-> [PlainItem EXCEPT !.Subject = NoneVal], Class |-> olMail, in_inbox |-> TRUE],
     [item |-> [PlainItem EXCEPT !.fault = "subject_raises"], Class |-> olMail,
      in_inbox |-> TRUE],
     [item |-> [PlainItem EXCEPT !.fault = "gone"], Class |-> olMail, in_inbox |-> TRUE],
     [item |-> PlainItem, Class |-> olMail, in_inbox |-> FALSE],
     [item |-> PlainItem, Class |-> 0, in_inbox |-> TRUE]}

\* stats[folder class] += 1 (lines 120-129)
count_folder(stats, folder_name) ==
    CASE folder_name = "High Priority" -> [stats EXCEPT !.high_priority = @ + 1]
      [] folder_name = "Medium Priority" -> [stats EXCEPT !.medium_priority = @ + 1]
      [] folder_name = "Action Required" -> [stats EXCEPT !.action_required = @ + 1]
      [] folder_name \in {"Archive/Promotional", "Archive/Newsletter"} ->
             [stats EXCEPT !.archived = @ + 1]
      [] OTHER -> [stats EXCEPT !.category_folders = @ + 1]

Bump(stats, key) == [stats EXCEPT ![key] = @ + 1]

Without(seq, k) == [j \in 1..(Len(seq) - 1) |-> IF j < k THEN seq[j] ELSE seq[j + 1]]

\* Lines 136-200: create the folder unless it is cached, move, flag, create
\* the task, in the order of the code.  Moving an item takes it out of
\* inbox.Items.  task_ok: what create_task_from_email returned.  effects is
\* the sequence of calls made on the mailbox.
perform_actions(o, k, recommendation, task_ok) ==
    LET id      == o.items[k].id
        moved   == Bump(o.stats, "moved")
        flagged == IF recommendation.flag THEN Bump(moved, "flagged") ELSE moved
        tasked  == IF recommendation.create_task /\ task_ok
                   THEN Bump(flagged, "task_created") ELSE flagged
        created == IF recommendation.folder \in o.folder_cache THEN <<>>
                   ELSE <<[op |-> "get_or_create_folder", id |-> id]>>
        move    == <<[op |-> "Move", id |-> id]>>
        flag    == IF recommendation.flag THEN <<[op |-> "FlagStatus", id |-> id]>> ELSE <<>>
        task    == IF recommendation.create_task
                   THEN <<[op |-> "create_task_from_email", id |-> id]>> ELSE <<>>
    IN  [o EXCEPT !.stats = tasked,
                  !.items = Without(o.items, k),
                  !.folder_cache = @ \cup {recommendation.folder},
                  !.effects = @ \o created \o move \o flag \o task,
                  !.processed_ids = @ \cup {id}]

\* The same, whatever dry_run says
AppliesInDryRun(o, counted, k, recommendation, task_ok) ==
    perform_actions(counted, k, recommendation, task_ok)

\* Lines 131-134: a dry run logs the recommendation and goes on
after_recommendation(o, counted, k, recommendation, task_ok) ==
    IF o.dry_run THEN counted
    ELSE perform_actions(counted, k, recommendation, task_ok)

\* One iteration of the loop of organize_inbox (lines 71-216) for index o.i
organize_step(o, task_ok) ==
    LET k     == o.i + 1
        entry == o.items[k]
        item  == entry.item
        recommendation == recommend_action(item, ScoreSenderScores, ScorePatterns,
                                           DEFAULT_CONFIG, NoLlm, ScoreTracking)
        next  == [o EXCEPT !.i = @ + 1]
    IN  IF k > Len(o.items) THEN [o EXCEPT !.phase = "done", !.last = "break"]
        ELSE IF Raises(item, "EntryID")
        THEN [next EXCEPT !.stats = Bump(@, "errors"), !.last = "unreadable"]
        ELSE IF entry.id \in o.processed_ids \/ entry.Class # olMail
        THEN [next EXCEPT !.last = "skipped"]
        ELSE IF ~entry.in_inbox
        THEN [next EXCEPT !.stats = Bump(@, "skipped_subfolder"),
                          !.processed_ids = @ \cup {entry.id}, !.last = "skipped"]
        ELSE IF recommendation = NoResult
        THEN \* line 111 counts; the getattr of line 112 can raise into line 206
             [next EXCEPT !.stats = IF Raises(item, "Subject")
                                    THEN Bump(Bump(@, "errors"), "errors")
                                    ELSE Bump(@, "errors"),
                          !.last = "failed"]
        ELSE LET counted == [next EXCEPT !.stats = count_folder(Bump(@, "processed"),
                                                                recommendation.folder),
                                         !.last = "recommended"]
             IN  after_recommendation(o, counted, k, recommendation, task_ok)

OrgInit ==
    /\ AnalyzerInit
    /\ watcher = IdleWatcher
    /\ mailbox = InboxSenders
    /\ imp = IdleImp
    /\ sc = IdleSc
    /\ \E kinds \in [1..OrgLen -> OrgKinds], dry_run \in BOOLEAN :
          org = [phase |-> "run", dry_run |-> dry_run,
                 items |-> [j \in 1..OrgLen |->
                               [id |-> j, item |-> kinds[j].item, Class |-> kinds[j].Class,
                                in_inbox |-> kinds[j].in_inbox]],
                 n |-> OrgLen, i |-> 0, stats |-> ZeroStats, processed_ids |-> {},
                 folder_cache |-> {}, effects |-> <<>>, last |-> "none"]

\* One iteration of the loop
OrgStep ==
    /\ org.phase = "run"
    /\ org.i < org.n
    /\ \E task_ok \in BOOLEAN : org' = organize_step(org, task_ok)
    /\ UNCHANGED <<analyzer_vars, imp, sc, watcher>>

\* The loop is over: organize_inbox returns stats
OrgReturn ==
    /\ org.phase = "run"
    /\ org.i = org.n
    /\ org' = [org EXCEPT !.phase = "done", !.last = "returned"]
    /\ UNCHANGED <<analyzer_vars, imp, sc, watcher>>

OrgNext == OrgStep \/ OrgReturn

SpecOrganize == OrgInit /\ [][OrgNext]_vars

\* C8: an iteration whose message cannot be scored counts one error, changes
\* nothing else, and the loop goes on with the next message.
C8_FailureCountsOneError ==
    [][(org'.last = "failed" /\ org'.i = org.i + 1) =>
          /\ org'.stats = [org.stats EXCEPT !.errors = @ + 1]
          /\ org'.items = org.items
          /\ org'.phase = "run"]_vars

\* C21: in a dry run organize_inbox creates no folder, moves nothing, sets no
\* flag and creates no task: the items of the inbox stay where they are and
\* only the statistics change.
C21_DryRunChangesNothing ==
    (org.phase # "off" /\ org.dry_run) =>
        /\ org.effects = <<>>
        /\ org.folder_cache = {}
        /\ Len(org.items) = org.n
        /\ org.stats.moved = 0 /\ org.stats.flagged = 0 /\ org.stats.task_created = 0

C21_Witness ==
    /\ org.phase = "done" /\ org.dry_run
    /\ org.stats.processed = OrgLen
    /\ org.stats.high_priority + org.stats.category_folders + org.stats.medium_priority
          + org.stats.archived + org.stats.action_required = OrgLen

\* C29: in apply mode, an item whose recommendation asks for a flag is flagged
\* before it is moved.
FirstIndex(seq, e) == CHOOSE j \in 1..Len(seq) : seq[j] = e /\ \A h \in 1..(j - 1) : seq[h] # e

C29_FlagBeforeMove ==
    org.phase # "off" =>
        \A id \in 1..OrgLen :
            LET f == [op |-> "FlagStatus", id |-> id]
                m == [op |-> "Move", id |-> id]
            IN  (f \in Range(org.effects) /\ m \in Range(org.effects)) =>
                    FirstIndex(org.effects, f) < FirstIndex(org.effects, m)

-----------------------------------------------------------------------------
(* The inbox watcher: outlook_watcher.OutlookWatcher over outlook_watcher.DB
   (specification SpecWatcher).  Times are whole ticks of one clock; the ISO
   strings the code stores order as the times they denote. *)

MaxTime == 4

MaxArrivals == 3

check_interval == 2

response_sla == 2

Conversations == {"c1", "c2"}

\* The conversations an arriving message can belong to: one that the handler
\* ignores is ignored whatever its conversation
ConversationsOf(handled) == IF handled THEN Conversations ELSE {"c1"}

\* A NULL column
NULL == -1

\* The tables after DB.__init__ on a new file
EmptyDB == [threads |-> EmptyMap, emails |-> <<>>, timers |-> <<>>, notifications |-> <<>>]

\* DB.upsert_thread
upsert_thread(db, conversation_id, message_time, direction) ==
    LET row == IF conversation_id \in DOMAIN db.threads
               THEN [db.threads[conversation_id] EXCEPT !.last_message_time = message_time]
               ELSE [first_message_time |-> message_time, last_message_time |-> message_time,
                     last_inbound_time |-> NULL, last_outbound_time |-> NULL,
                     last_team_response_at |-> NULL, open_callouts |-> 0]
        timed == IF direction = "inbound" THEN [row EXCEPT !.last_inbound_time = message_time]
                 ELSE [row EXCEPT !.last_outbound_time = message_time]
    IN  [db EXCEPT !.threads = Put(@, conversation_id, timed)]

\* DB.insert_email: INSERT OR IGNORE on the primary key entry_id
insert_email(db, entry_id, conversation_id, direction, time) ==
    IF \E i \in 1..Len(db.emails) : db.emails[i].entry_id = entry_id THEN db
    ELSE [db EXCEPT !.emails = Append(@, [entry_id |-> entry_id,
                                          conversation_id |-> conversation_id,
                                          direction |-> direction, time |-> time])]

\* DB.create_timer: the new row's id is its position
create_timer(db, conversation_id, trigger_entry_id, created_at, due_at) ==
    [db EXCEPT !.timers = Append(@, [conversation_id |-> conversation_id,
                                     trigger_entry_id |-> trigger_entry_id,
                                     created_at |-> created_at, due_at |-> due_at,
                                     responded_at |-> NULL, breached_at |-> NULL,
                                     status |-> "OPEN", notified |-> 0]),
                !.threads = IF conversation_id \in DOMAIN @
                            THEN [@ EXCEPT ![conversation_id].open_callouts = @ + 1]
                            ELSE @]

\* The UPDATE of respond_timers_for_conversation on one row that its WHERE
\* clause selects
respond_row(t, responded_at) ==
    LET coalesced == IF t.responded_at = NULL THEN responded_at ELSE t.responded_at
    IN  [t EXCEPT !.responded_at = coalesced,
                  !.status = IF coalesced <= t.due_at THEN "RESPONDED" ELSE @]

\* The same without the status condition of the WHERE clause
RespondsWhateverStatus(db, conversation_id, responded_at) ==
    [db EXCEPT !.timers = [id \in 1..Len(@) |->
                              IF /\ @[id].conversation_id = conversation_id
                                 /\ @[id].due_at >= responded_at
                              THEN respond_row(@[id], responded_at) ELSE @[id]]]

\* DB.respond_timers_for_conversation
respond_timers_for_conversation(db, conversation_id, responded_at) ==
    [db EXCEPT !.timers = [id \in 1..Len(@) |->
                              IF /\ @[id].conversation_id = conversation_id
                                 /\ @[id].status = "OPEN"
                                 /\ @[id].due_at >= responded_at
                              THEN respond_row(@[id], responded_at) ELSE @[id]],
                !.threads = IF conversation_id \in DOMAIN @
                            THEN [@ EXCEPT ![conversation_id].last_team_response_at = responded_at,
                                           ![conversation_id].open_callouts = 0]
                            ELSE @]

\* DB.mark_breached
mark_breached(db, timer_id, breached_at) ==
    IF db.timers[timer_id].status = "OPEN"
    THEN [db EXCEPT !.timers[timer_id].breached_at = breached_at,
                    !.timers[timer_id].status = "BREACHED"]
    ELSE db

\* DB.timers_due_unnotified: the ids of the rows selected
timers_due_unnotified(db, now_str) ==
    {id \in 1..Len(db.timers) : db.timers[id].status = "OPEN" /\ db.timers[id].due_at <= now_str}

\* DB.mark_notified
mark_notified(db, timer_id, sent_at) ==
    [db EXCEPT !.notifications = Append(@, [timer_id |-> timer_id, sent_at |-> sent_at]),
               !.timers[timer_id].notified = 1]

\* The loop of _check_timers over the rows `due`, in the order of their ids
RECURSIVE check_due(_, _, _, _)
check_due(db, due, now, notify) ==
    IF due = {} THEN db
    ELSE LET id == CHOOSE x \in due : \A y \in due : x <= y
             breached == mark_breached(db, id, now)
         IN  check_due(IF notify THEN mark_notified(breached, id, now) ELSE breached,
                       due \ {id}, now, notify)

\* OutlookWatcher._check_timers; notify: level 2 and notify.enabled
check_timers(db, now, notify) == check_due(db, timers_due_unnotified(db, now), now, notify)

\* OutlookWatcher._handle_inbound for a mail item; item.targeted is what
\* matches_target answers, item.mentions whether the text calls the team out
handle_inbound(db, item) ==
    IF ~item.targeted THEN db
    ELSE LET threaded == upsert_thread(db, item.ConversationID, item.time, "inbound")
             stored   == insert_email(threaded, item.EntryID, item.ConversationID,
                                      "inbound", item.time)
         IN  IF item.mentions
             THEN create_timer(stored, item.ConversationID, item.EntryID, item.time,
                               item.time + response_sla)
             ELSE stored

\* OutlookWatcher._handle_outbound; item.team: the sender is a configured
\* team member
handle_outbound(db, item) ==
    IF ~item.team THEN db
    ELSE LET threaded == upsert_thread(db, item.ConversationID, item.time, "outbound")
             stored   == insert_email(threaded, item.EntryID, item.ConversationID,
                                      "outbound", item.time)
         IN  respond_timers_for_conversation(stored, item.ConversationID, item.time)

\* pythoncom.PumpWaitingMessages: the OnItemAdd events waiting, in their order
RECURSIVE PumpWaitingMessages(_, _)
PumpWaitingMessages(db, pending) ==
    IF pending = <<>> THEN db
    ELSE LET item == Head(pending)
         IN  PumpWaitingMessages(IF item.direction = "inbound" THEN handle_inbound(db, item)
                                 ELSE handle_outbound(db, item),
                                 Tail(pending))

\* A watcher that has connected, with a new database, entering its loop
WatcherInit ==
    /\ AnalyzerInit
    /\ mailbox = InboxSenders
    /\ imp = IdleImp
    /\ sc = IdleSc
    /\ org = IdleOrg
    /\ \E notify \in BOOLEAN :
          watcher = [phase |-> "run", pc |-> "check", now |-> 0, slept |-> 0,
                     notify |-> notify, db |-> EmptyDB, pending |-> <<>>, arrivals |-> 0]

\* A message arrives in the Inbox: Outlook queues an OnItemAdd event
InboundItemAdd ==
    /\ watcher.phase = "run"
    /\ watcher.arrivals < MaxArrivals
    /\ \E mentions \in BOOLEAN, targeted \in BOOLEAN :
       \E conv \in ConversationsOf(targeted) :
          watcher' = [watcher EXCEPT
                        !.arrivals = @ + 1,
                        !.pending = Append(@, [direction |-> "inbound",
                                               EntryID |-> watcher.arrivals + 1,
                                               ConversationID |-> conv,
                                               time |-> watcher.now,
                                               mentions |-> mentions /\ targeted,
                                               targeted |-> targeted, team |-> FALSE])]
    /\ UNCHANGED <<analyzer_vars, imp, sc, org>>

\* A message is sent: it arrives in Sent Items and Outlook queues the event
OutboundItemAdd ==
    /\ watcher.phase = "run"
    /\ watcher.arrivals < MaxArrivals
    /\ \E team \in BOOLEAN :
       \E conv \in ConversationsOf(team) :
          watcher' = [watcher EXCEPT
                        !.arrivals = @ + 1,
                        !.pending = Append(@, [direction |-> "outbound",
                                               EntryID |-> watcher.arrivals + 1,
                                               ConversationID |-> conv,
                                               time |-> watcher.now,
                                               mentions |-> FALSE, targeted |-> FALSE,
                                               team |-> team])]
    /\ UNCHANGED <<analyzer_vars, imp, sc, org>>

\* run, line 187: self._check_timers(level)
CheckTimers ==
    /\ watcher.phase = "run"
    /\ watcher.pc = "check"
    /\ watcher' = [watcher EXCEPT !.db = check_timers(@, watcher.now, watcher.notify),
                                  !.pc = "pump"]
    /\ UNCHANGED <<analyzer_vars, imp, sc, org>>

\* run, line 188: the waiting events are handled
Pump ==
    /\ watcher.phase = "run"
    /\ watcher.pc = "pump"
    /\ watcher' = [watcher EXCEPT !.db = PumpWaitingMessages(@, watcher.pending),
                                  !.pending = <<>>,
                                  !.pc = "sleep", !.slept = 0]
    /\ UNCHANGED <<analyzer_vars, imp, sc, org>>

\* run, line 189: time passes while the loop sleeps
Sleep ==
    /\ watcher.phase = "run"
    /\ watcher.pc = "sleep"
    /\ watcher.now < MaxTime
    /\ watcher' = [watcher EXCEPT !.now = @ + 1,
                                  !.slept = @ + 1,
                                  !.pc = IF watcher.slept + 1 >= check_interval
                                         THEN "check" ELSE "sleep"]
    /\ UNCHANGED <<analyzer_vars, imp, sc, org>>

WatcherNext == InboundItemAdd \/ OutboundItemAdd \/ CheckTimers \/ Pump \/ Sleep

SpecWatcher == WatcherInit /\ [][WatcherNext]_vars

\* The replies of team members sent so far, handled or still waiting
TeamReplies ==
    {[conversation_id |-> watcher.db.emails[i].conversation_id,
      time |-> watcher.db.emails[i].time, handled |-> TRUE] :
        i \in {j \in 1..Len(watcher.db.emails) : watcher.db.emails[j].direction = "outbound"}}
    \cup {[conversation_id |-> watcher.pending[i].ConversationID,
           time |-> watcher.pending[i].time, handled |-> FALSE] :
             i \in {j \in 1..Len(watcher.pending) :
                       watcher.pending[j].direction = "outbound" /\ watcher.pending[j].team}}

\* C23: a timer to which a team member replied in its conversation, after the
\* trigger and at or before due_at, is never BREACHED and never notified, and
\* is RESPONDED once the reply has been handled, however the timer check and
\* the handling of the waiting events are ordered.
C23_ReplyInTimeNeverBreached ==
    watcher.phase = "run" =>
        \A id \in 1..Len(watcher.db.timers) :
            LET t == watcher.db.timers[id]
            IN  \A r \in TeamReplies :
                    (/\ r.conversation_id = t.conversation_id
                     /\ t.created_at < r.time
                     /\ r.time <= t.due_at) =>
                        /\ t.status # "BREACHED"
                        /\ t.notified = 0
                        /\ r.handled => t.status = "RESPONDED"

\* C30: a timer's status changes only from OPEN, to RESPONDED or to BREACHED,
\* so at most once, and every notification recorded is for a BREACHED timer.
C30_StatusChangesOnce ==
    [][watcher.phase = "run" =>
          /\ \A id \in 1..Len(watcher.db.timers) :
                /\ id <= Len(watcher'.db.timers)
                /\ watcher'.db.timers[id].status # watcher.db.timers[id].status =>
                       /\ watcher.db.timers[id].status = "OPEN"
                       /\ watcher'.db.timers[id].status \in {"RESPONDED", "BREACHED"}
          /\ \A n \in 1..Len(watcher'.db.notifications) :
                watcher'.db.timers[watcher'.db.notifications[n].timer_id].status = "BREACHED"
      ]_vars

\* A timer breached and notified while a reply sent in time waited, still
\* BREACHED after the reply has been handled, and another timer that the
\* handled reply has set to RESPONDED
C30_Witness ==
    /\ watcher.phase = "run"
    /\ \E id1, id2 \in 1..Len(watcher.db.timers) :
          /\ watcher.db.timers[id1].status = "RESPONDED"
          /\ watcher.db.timers[id2].status = "BREACHED"
          /\ watcher.db.timers[id2].notified = 1
          /\ \E r \in TeamReplies :
                /\ r.conversation_id = watcher.db.timers[id2].conversation_id
                /\ r.time <= watcher.db.timers[id2].due_at
                /\ watcher.db.timers[id2].created_at < r.time
                /\ r.handled

====
